---- MODULE Spec2Model ----
(***************************************************************************)
(* The TiVo line-protocol client of virginmedia_tv (pyvmtivo/client.py):   *)
(* Device, Client._send, the four commands, Client.wait_for_data, connect,  *)
(* disconnect, the context manager, the read lock, the exception types and *)
(* format_error_message of pyvmtivo/exceptions.py.                         *)
(*                                                                         *)
(* Text is a sequence of one-character strings, so that upper(), lower(),  *)
(* strip(), startswith(), split() and the regular expression \d{4} are     *)
(* computed as Python computes them.  An Optional value is <<>> (None) or  *)
(* <<v>>.                                                                  *)
(***************************************************************************)
EXTENDS Integers, Sequences, FiniteSets, TLC

VARIABLES
    _reader,         \* Client._reader: None or the stream reader
    _writer,         \* Client._writer: None or the stream writer
    _tivo,           \* Client._tivo: the Device (channel_number, previous_channel_number)
    _data_callback,  \* Client._data_callback: the ordered list of callbacks
    call,            \* the call the caller has made and not yet taken the outcome of
    before,          \* the Client as it was when that call started
    io,              \* what that call did, in order: socket writes, drains, reads, callbacks
    raised,          \* None when the call returned, else the exception it raised
    open_sockets,    \* how many of the sockets this Client opened are open
    scope,           \* "in" inside an `async with client:' block, else "out"
    _lock_read,      \* Client._lock_read: None when free, else the task holding it
    pc,              \* where each concurrent task is in its call
    _timeout,        \* Client._timeout: the connect timeout, None for no limit
    _command_timeout,\* Client._command_timeout: the reply timeout
    unsent,          \* lines written to the socket that the peer has not taken yet
    inbox,           \* the replies of the peer on the connection, unread and just read
    player,          \* the VirginMediaPlayer entity that owns the Client
    api              \* the guide API object and the async_get_channels call on it

vars == <<_reader, _writer, _tivo, _data_callback, call, before, io, raised,
          open_sockets, scope, _lock_read, pc, _timeout, _command_timeout, unsent,
          inbox, player, api>>

None == <<>>
Some(v) == <<v>>

(***************************************************************************)
(* Bounds of the model.                                                    *)
(***************************************************************************)
MaxCallbacks == 3   \* registrations kept in _data_callback
MaxTail == 5        \* characters after "CH_STATUS" in the generated status lines
MaxSockets == 2     \* sockets of the Client open at once
MaxTasks == 3       \* tasks calling into one Client concurrently
HighWater == 2      \* lines the transport buffers before drain() has to wait

(***************************************************************************)
(* pyvmtivo/const.py, in seconds.                                          *)
(***************************************************************************)
DEFAULT_COMMAND_TIMEOUT == 1
DEFAULT_CONNECT_TIMEOUT == 1

(***************************************************************************)
(* Python text operations.                                                 *)
(***************************************************************************)
LowerLetters == <<"a", "b", "c", "d", "e", "f", "g", "h", "i", "j", "k", "l", "m", "n", "o", "p", "q", "r", "s", "t", "u", "v", "w", "x", "y", "z">>
UpperLetters == <<"A", "B", "C", "D", "E", "F", "G", "H", "I", "J", "K", "L", "M", "N", "O", "P", "Q", "R", "S", "T", "U", "V", "W", "X", "Y", "Z">>
DigitChars == <<"0", "1", "2", "3", "4", "5", "6", "7", "8", "9">>

Whitespace == {" ", "\t", "\n", "\r"}
DigitSet == {DigitChars[i] : i \in 1..Len(DigitChars)}

IsIn(c, s) == \E i \in 1..Len(s) : s[i] = c
IndexOf(c, s) == CHOOSE i \in 1..Len(s) : s[i] = c

\* str.upper() and str.lower(), character by character
UpperOf == [c \in {LowerLetters[i] : i \in 1..Len(LowerLetters)} |-> UpperLetters[IndexOf(c, LowerLetters)]]
LowerOf == [c \in {UpperLetters[i] : i \in 1..Len(UpperLetters)} |-> LowerLetters[IndexOf(c, UpperLetters)]]
upperChar(c) == IF c \in DOMAIN UpperOf THEN UpperOf[c] ELSE c
lowerChar(c) == IF c \in DOMAIN LowerOf THEN LowerOf[c] ELSE c
RECURSIVE upper(_)
upper(s) == IF s = <<>> THEN <<>> ELSE <<upperChar(Head(s))>> \o upper(Tail(s))
RECURSIVE lower(_)
lower(s) == IF s = <<>> THEN <<>> ELSE <<lowerChar(Head(s))>> \o lower(Tail(s))

\* str.strip(): leading and trailing whitespace removed
RECURSIVE lstrip(_)
lstrip(s) == IF s # <<>> /\ Head(s) \in Whitespace THEN lstrip(Tail(s)) ELSE s
RECURSIVE rstrip(_)
rstrip(s) ==
    IF s # <<>> /\ s[Len(s)] \in Whitespace THEN rstrip(SubSeq(s, 1, Len(s) - 1)) ELSE s
strip(s) == rstrip(lstrip(s))

\* str.startswith(prefix)
startswith(s, prefix) == Len(s) >= Len(prefix) /\ SubSeq(s, 1, Len(prefix)) = prefix

\* re.search(r"\d{4}", s) from position i on: the leftmost four consecutive digits, or None
RECURSIVE re_search_from(_, _)
re_search_from(s, i) ==
    IF i + 3 > Len(s) THEN None
    ELSE IF \A k \in 0..3 : s[i + k] \in DigitSet THEN Some(SubSeq(s, i, i + 3))
    ELSE re_search_from(s, i + 1)
\* re.match in place of re.search: the four digits only at the start of the text
re_match_4digits(s) ==
    IF Len(s) >= 4 /\ \A k \in 1..4 : s[k] \in DigitSet THEN Some(SubSeq(s, 1, 4)) ELSE None

re_search_4digits(s) == re_search_from(s, 1)

\* int(s) of a string of decimal digits
RECURSIVE int(_)
int(s) ==
    IF s = <<>> THEN 0
    ELSE 10 * int(SubSeq(s, 1, Len(s) - 1)) + (IndexOf(s[Len(s)], DigitChars) - 1)

\* str(n) of an integer, as the f-string f"{n}" formats it
RECURSIVE str_int(_)
str_int(n) ==
    IF n < 0 THEN <<"-">> \o str_int(0 - n)
    ELSE IF n < 10 THEN <<DigitChars[n + 1]>>
    ELSE str_int(n \div 10) \o <<DigitChars[(n % 10) + 1]>>

\* s.split(" ")[-1]: what follows the last space, the whole of s when it has none
RECURSIVE split_last_from(_, _)
split_last_from(s, i) ==
    IF i = 0 THEN s
    ELSE IF s[i] = " " THEN SubSeq(s, i + 1, Len(s))
    ELSE split_last_from(s, i - 1)
split_last(s) == split_last_from(s, Len(s))

(***************************************************************************)
(* Exceptions.  An exception is its type, str() of it, and the attribute   *)
(* its class carries.  Types outside pyvmtivo/exceptions.py are the ones   *)
(* the interpreter and the socket raise.                                   *)
(***************************************************************************)
Exc(type, message) ==
    [type |-> type, message |-> message,
     key_code |-> <<>>, command |-> <<>>, channel_number |-> None]

\* Exception(arg): str() of it is str(arg), "None" for None
str_arg(arg) == IF arg = None THEN <<"N", "o", "n", "e">> ELSE arg[1]

VirginMediaError(arg) == Exc("VirginMediaError", str_arg(arg))
VirginMediaCommandTimeout ==
    Exc("VirginMediaCommandTimeout",
        <<"C", "o", "m", "m", "a", "n", "d", " ", "t", "i", "m", "e", "o", "u", "t">>)
VirginMediaConnectionReset ==
    Exc("VirginMediaConnectionReset",
        <<"C", "o", "n", "n", "e", "c", "t", "i", "o", "n", " ", "r", "e", "s", "e", "t">>)
VirginMediaInvalidChannel(channel_number) ==
    [Exc("VirginMediaInvalidChannel",
         <<"I", "n", "v", "a", "l", "i", "d", " ", "c", "h", "a", "n", "n", "e", "l", " ", "(">>
             \o str_int(channel_number) \o <<")">>)
     EXCEPT !.channel_number = Some(channel_number)]
VirginMediaInvalidCommand(command) ==
    [Exc("VirginMediaInvalidCommand",
         <<"I", "n", "v", "a", "l", "i", "d", " ", "c", "o", "m", "m", "a", "n", "d", " ", "(">>
             \o command \o <<")">>)
     EXCEPT !.command = command]
VirginMediaInvalidKey(key_code) ==
    [Exc("VirginMediaInvalidKey",
         <<"I", "n", "v", "a", "l", "i", "d", " ", "k", "e", "y", " ", "(">>
             \o key_code \o <<")">>)
     EXCEPT !.key_code = key_code]
VirginMediaNotLive ==
    Exc("VirginMediaNotLive",
        <<"N", "o", "t", " ", "i", "n", " ", "L", "i", "v", "e", "T", "V", " ", "m", "o", "d", "e">>)

\* isinstance(err, VirginMediaError)
VirginMediaTypes ==
    {"VirginMediaError", "VirginMediaCommandTimeout", "VirginMediaConnectionReset",
     "VirginMediaInvalidChannel", "VirginMediaInvalidCommand", "VirginMediaInvalidKey",
     "VirginMediaNotLive"}
isVirginMediaError(err) == err.type \in VirginMediaTypes

\* isinstance(err, asyncio.TimeoutError)
isTimeoutError(err) == err.type = "TimeoutError"

\* DEFAULT_ERROR_MESSAGES.get(type(error)): by exact type, None for any other type
DEFAULT_ERROR_MESSAGES(type) ==
    CASE type = "ConnectionError" ->
            Some(<<"C", "o", "n", "n", "e", "c", "t", "i", "o", "n", " ", "e", "r", "r", "o", "r">>)
      [] type = "BrokenPipeError" ->
            Some(<<"B", "r", "o", "k", "e", "n", " ", "p", "i", "p", "e">>)
      [] type = "ConnectionAbortedError" ->
            Some(<<"C", "o", "n", "n", "e", "c", "t", "i", "o", "n", " ", "a", "b", "o", "r", "t", "e", "d">>)
      [] type = "ConnectionRefusedError" ->
            Some(<<"C", "o", "n", "n", "e", "c", "t", "i", "o", "n", " ", "r", "e", "f", "u", "s", "e", "d">>)
      [] type = "ConnectionResetError" ->
            Some(<<"C", "o", "n", "n", "e", "c", "t", "i", "o", "n", " ", "r", "e", "s", "e", "t">>)
      [] type = "OSError" ->
            Some(<<"O", "S", " ", "I", "/", "O", " ", "e", "r", "r", "o", "r">>)
      [] OTHER -> None

\* format_error_message(error): str(error), or the default of its type when that is empty
format_error_message(error) ==
    IF error.message # <<>> THEN Some(error.message) ELSE DEFAULT_ERROR_MESSAGES(error.type)

(***************************************************************************)
(* Device.                                                                 *)
(***************************************************************************)
Device == [channel_number |-> None, previous_channel_number |-> None]

\* Device._set_channel_number(value)
\* a setter without the comparison of line 48
_set_channel_number_always(device, value) ==
    [channel_number |-> value, previous_channel_number |-> device.channel_number]

_set_channel_number(device, value) ==
    IF value # device.channel_number
    THEN [channel_number |-> value, previous_channel_number |-> device.channel_number]
    ELSE device

(***************************************************************************)
(* The socket.  What the peer and the transport do is an input of each     *)
(* call: `wr' is None when write and drain succeed, else the exception     *)
(* they raise; `rd' is the outcome of the one bounded read; `cbr' is None  *)
(* or the position in _data_callback of a callback that raises.            *)
(***************************************************************************)
buffer_size == 1024

ReadData(data) == [kind |-> "data", data |-> data, err |-> Exc("", <<>>)]
ReadError(err) == [kind |-> "error", data |-> <<>>, err |-> err]
NoRead == [kind |-> "none", data |-> <<>>, err |-> Exc("", <<>>)]

\* what a call does, in order: the step, its bytes or its callback, and for a
\* callback the Device it is passed
Event(ev, data) == [ev |-> ev, data |-> data, tivo |-> None]

\* a byte that is not valid UTF-8
BadByte == "0xff"

\* bytes.decode(): the text, or UnicodeDecodeError at the first invalid byte
decode(data) ==
    LET bad == {i \in 1..Len(data) : data[i] = BadByte}
    IN  IF bad = {} THEN [ok |-> TRUE, text |-> data, err |-> Exc("", <<>>)]
        ELSE [ok |-> FALSE, text |-> <<>>,
              err |-> Exc("UnicodeDecodeError",
                  <<"'", "u", "t", "f", "-", "8", "'", " ", "c", "o", "d", "e", "c", " ", "c", "a", "n", "'", "t", " ", "d", "e", "c", "o", "d", "e", " ", "b", "y", "t", "e", " ", "0", "x", "f", "f", " ", "i", "n", " ", "p", "o", "s", "i", "t", "i", "o", "n", " ">>
                  \o str_int((CHOOSE i \in bad : \A j \in bad : i <= j) - 1)
                  \o <<":", " ", "i", "n", "v", "a", "l", "i", "d", " ", "s", "t", "a", "r", "t", " ", "b", "y", "t", "e">>)]

\* what a callback raises when it raises
CallbackError == Exc("ValueError", <<"b", "a", "d">>)

\* for func in self._data_callback: func(self._tivo), up to the first one that raises
run_callbacks(callbacks, cbr, tivo) ==
    LET last == IF cbr = None THEN Len(callbacks) ELSE cbr[1]
    IN  [io |-> [i \in 1..last |->
                    [Event("callback", <<callbacks[i]>>) EXCEPT !.tivo = Some(tivo)]],
         raised |-> IF cbr = None THEN None ELSE Some(CallbackError)]

Outcome(tivo, r, events) == [tivo |-> tivo, raised |-> r, io |-> events]

\* a parser that also takes a line starting with INVALID_CHANNEL for a failure
parse_reply_invalid_channel(tivo, callbacks, data, cbr) ==
    LET m == re_search_4digits(data)
        set == IF m # None THEN _set_channel_number(tivo, Some(int(m[1]))) ELSE tivo
        cbs == run_callbacks(callbacks, cbr, set)
        cb == run_callbacks(callbacks, cbr, tivo)
    IN  IF startswith(data, <<"C", "H", "_", "S", "T", "A", "T", "U", "S">>)
        THEN Outcome(set, cbs.raised, cbs.io)
        ELSE IF startswith(data, <<"C", "H", "_", "F", "A", "I", "L", "E", "D">>)
        THEN Outcome(tivo, Some(VirginMediaError(Some(split_last(data)))), <<>>)
        ELSE IF startswith(data, <<"I", "N", "V", "A", "L", "I", "D", "_", "C", "H", "A", "N", "N", "E", "L">>)
        THEN Outcome(tivo, Some(VirginMediaError(Some(<<"I", "N", "V", "A", "L", "I", "D", "_", "C", "H", "A", "N", "N", "E", "L">>))), <<>>)
        ELSE IF data = <<"I", "N", "V", "A", "L", "I", "D", "_", "K", "E", "Y">>
        THEN Outcome(tivo, Some(VirginMediaError(Some(data))), <<>>)
        ELSE IF data = <<"I", "N", "V", "A", "L", "I", "D", "_", "C", "O", "M", "M", "A", "N", "D">>
        THEN Outcome(tivo, Some(VirginMediaError(Some(data))), <<>>)
        ELSE Outcome(tivo, cb.raised, cb.io)

\* a parser whose callbacks also run after a failure line
parse_reply_always_calls(tivo, callbacks, data, cbr) ==
    LET m == re_search_4digits(data)
        set == IF m # None THEN _set_channel_number(tivo, Some(int(m[1]))) ELSE tivo
        cbs == run_callbacks(callbacks, cbr, set)
        cb == run_callbacks(callbacks, cbr, tivo)
    IN  IF startswith(data, <<"C", "H", "_", "S", "T", "A", "T", "U", "S">>)
        THEN Outcome(set, cbs.raised, cbs.io)
        ELSE IF startswith(data, <<"C", "H", "_", "F", "A", "I", "L", "E", "D">>)
        THEN Outcome(tivo, Some(VirginMediaError(Some(split_last(data)))), cb.io)
        ELSE IF data = <<"I", "N", "V", "A", "L", "I", "D", "_", "K", "E", "Y">>
        THEN Outcome(tivo, Some(VirginMediaError(Some(data))), <<>>)
        ELSE IF data = <<"I", "N", "V", "A", "L", "I", "D", "_", "C", "O", "M", "M", "A", "N", "D">>
        THEN Outcome(tivo, Some(VirginMediaError(Some(data))), <<>>)
        ELSE Outcome(tivo, cb.raised, cb.io)

\* a parser whose callbacks see the new channel_number beside the old previous_channel_number
parse_reply_partial(tivo, callbacks, data, cbr) ==
    LET m == re_search_4digits(data)
        set == IF m # None THEN _set_channel_number(tivo, Some(int(m[1]))) ELSE tivo
        cbs == run_callbacks(callbacks, cbr,
                   [set EXCEPT !.previous_channel_number = tivo.previous_channel_number])
        cb == run_callbacks(callbacks, cbr, tivo)
    IN  IF startswith(data, <<"C", "H", "_", "S", "T", "A", "T", "U", "S">>)
        THEN Outcome(set, cbs.raised, cbs.io)
        ELSE IF startswith(data, <<"C", "H", "_", "F", "A", "I", "L", "E", "D">>)
        THEN Outcome(tivo, Some(VirginMediaError(Some(split_last(data)))), <<>>)
        ELSE IF data = <<"I", "N", "V", "A", "L", "I", "D", "_", "K", "E", "Y">>
        THEN Outcome(tivo, Some(VirginMediaError(Some(data))), <<>>)
        ELSE IF data = <<"I", "N", "V", "A", "L", "I", "D", "_", "C", "O", "M", "M", "A", "N", "D">>
        THEN Outcome(tivo, Some(VirginMediaError(Some(data))), <<>>)
        ELSE Outcome(tivo, cb.raised, cb.io)

\* a parser that takes for the reason of a failure what follows the last
\* whitespace character of the line, str.split() in place of str.split(" ")
parse_reply_whitespace(tivo, callbacks, data, cbr) ==
    LET m == re_search_4digits(data)
        set == IF m # None THEN _set_channel_number(tivo, Some(int(m[1]))) ELSE tivo
        cbs == run_callbacks(callbacks, cbr, set)
        cb == run_callbacks(callbacks, cbr, tivo)
        ws == {i \in 1..Len(data) : data[i] \in Whitespace}
        reason ==
            IF ws = {} THEN data
            ELSE SubSeq(data, (CHOOSE i \in ws : \A j \in ws : j <= i) + 1, Len(data))
    IN  IF startswith(data, <<"C", "H", "_", "S", "T", "A", "T", "U", "S">>)
        THEN Outcome(set, cbs.raised, cbs.io)
        ELSE IF startswith(data, <<"C", "H", "_", "F", "A", "I", "L", "E", "D">>)
        THEN Outcome(tivo, Some(VirginMediaError(Some(reason))), <<>>)
        ELSE IF data = <<"I", "N", "V", "A", "L", "I", "D", "_", "K", "E", "Y">>
        THEN Outcome(tivo, Some(VirginMediaError(Some(data))), <<>>)
        ELSE IF data = <<"I", "N", "V", "A", "L", "I", "D", "_", "C", "O", "M", "M", "A", "N", "D">>
        THEN Outcome(tivo, Some(VirginMediaError(Some(data))), <<>>)
        ELSE Outcome(tivo, cb.raised, cb.io)

\* a parser that takes a line it does not know for a failure
parse_reply_strict(tivo, callbacks, data, cbr) ==
    LET m == re_search_4digits(data)
        set == IF m # None THEN _set_channel_number(tivo, Some(int(m[1]))) ELSE tivo
        cbs == run_callbacks(callbacks, cbr, set)
    IN  IF startswith(data, <<"C", "H", "_", "S", "T", "A", "T", "U", "S">>)
        THEN Outcome(set, cbs.raised, cbs.io)
        ELSE IF startswith(data, <<"C", "H", "_", "F", "A", "I", "L", "E", "D">>)
        THEN Outcome(tivo, Some(VirginMediaError(Some(split_last(data)))), <<>>)
        ELSE Outcome(tivo, Some(VirginMediaError(Some(data))), <<>>)

\* what wait_for_data does with the text of a non-empty read: the Device is
\* set before the callbacks run, and they are passed the Device as set
parse_reply(tivo, callbacks, data, cbr) ==
    LET m == re_search_4digits(data)
        set == IF m # None THEN _set_channel_number(tivo, Some(int(m[1]))) ELSE tivo
        cbs == run_callbacks(callbacks, cbr, set)
        cb == run_callbacks(callbacks, cbr, tivo)
    IN  IF startswith(data, <<"C", "H", "_", "S", "T", "A", "T", "U", "S">>)
        THEN Outcome(set, cbs.raised, cbs.io)
        ELSE IF startswith(data, <<"C", "H", "_", "F", "A", "I", "L", "E", "D">>)
        THEN Outcome(tivo, Some(VirginMediaError(Some(split_last(data)))), <<>>)
        ELSE IF data = <<"I", "N", "V", "A", "L", "I", "D", "_", "K", "E", "Y">>
        THEN Outcome(tivo, Some(VirginMediaError(Some(data))), <<>>)
        ELSE IF data = <<"I", "N", "V", "A", "L", "I", "D", "_", "C", "O", "M", "M", "A", "N", "D">>
        THEN Outcome(tivo, Some(VirginMediaError(Some(data))), <<>>)
        ELSE Outcome(tivo, cb.raised, cb.io)

\* a timeout that raises and leaves the Device as it was
read_except_keep(tivo, err) ==
    IF isTimeoutError(err)
    THEN Outcome(tivo, Some(VirginMediaCommandTimeout), <<>>)
    ELSE Outcome(tivo, Some(VirginMediaError(format_error_message(err))), <<>>)

\* an except clause that forgets the channel after every failure of the read
read_except_reset(tivo, err) ==
    IF isTimeoutError(err)
    THEN Outcome(_set_channel_number(tivo, None), Some(VirginMediaCommandTimeout), <<>>)
    ELSE Outcome(_set_channel_number(tivo, None),
                 Some(VirginMediaError(format_error_message(err))), <<>>)

\* the except clause of the read in wait_for_data: the reply timeout, or any other failure
read_except(tivo, err) ==
    IF isTimeoutError(err)
    THEN Outcome(_set_channel_number(tivo, None), Some(VirginMediaCommandTimeout), <<>>)
    ELSE Outcome(tivo, Some(VirginMediaError(format_error_message(err))), <<>>)

\* a closed connection reported as one more failed read
read_empty_generic(tivo) ==
    Outcome(_set_channel_number(tivo, None),
            Some(VirginMediaError(format_error_message(VirginMediaConnectionReset))), <<>>)

\* if not data: the peer closed the connection
read_empty(tivo) ==
    Outcome(_set_channel_number(tivo, None), Some(VirginMediaConnectionReset), <<>>)

\* Client.wait_for_data()
wait_for_data(reader, tivo, callbacks, rd, cbr) ==
    LET got == SubSeq(rd.data, 1, IF Len(rd.data) < buffer_size THEN Len(rd.data) ELSE buffer_size)
        text == decode(got)
        inner ==
            IF reader = None
            THEN \* self._reader.read raises AttributeError inside the try
                 read_except(tivo, Exc("AttributeError",
                     <<"'", "N", "o", "n", "e", "T", "y", "p", "e", "'", " ", "o", "b", "j", "e", "c", "t", " ", "h", "a", "s", " ", "n", "o", " ", "a", "t", "t", "r", "i", "b", "u", "t", "e", " ", "'", "r", "e", "a", "d", "'">>))
            ELSE IF rd.kind = "error"
            THEN [read_except(tivo, rd.err) EXCEPT !.io = <<Event("read", <<>>)>>]
            ELSE IF got = <<>>
            THEN [read_empty(tivo) EXCEPT !.io = <<Event("read", got)>>]
            ELSE IF ~text.ok
            THEN Outcome(tivo, Some(text.err), <<Event("read", got)>>)
            ELSE [parse_reply(tivo, callbacks, strip(text.text), cbr)
                     EXCEPT !.io = <<Event("read", got)>> \o @]
    IN  \* async with self._lock_read
        [inner EXCEPT !.io = <<Event("acquire", <<>>)>> \o @ \o <<Event("release", <<>>)>>]

\* the except clause of Client._send: what reaches the command method
_send_except(err) ==
    IF isTimeoutError(err) THEN VirginMediaCommandTimeout
    ELSE IF isVirginMediaError(err) THEN err
    ELSE VirginMediaError(format_error_message(err))

\* the line upper-cased, the terminator forgotten
command_line_unterminated(data) == upper(data)

\* data = f"{data}\r".upper()
command_line(data) == upper(data \o <<"\r">>)

\* a _send that waits for the reply whatever wait_for_reply says
_send_always_waits(data, wait_for_reply, writer, reader, tivo, callbacks, wr, rd, cbr) ==
    LET sent == <<Event("write", command_line(data)), Event("drain", <<>>)>>
        inner ==
            IF writer = None THEN Outcome(tivo, None, <<>>)
            ELSE IF wr # None THEN Outcome(tivo, wr, sent)
            ELSE [wait_for_data(reader, tivo, callbacks, rd, cbr) EXCEPT !.io = sent \o @]
    IN  [inner EXCEPT !.raised = IF @ = None THEN None ELSE Some(_send_except(@[1]))]

\* a _send that writes the line a second time when the first write fails
_send_retries(data, wait_for_reply, writer, reader, tivo, callbacks, wr, rd, cbr) ==
    LET sent == <<Event("write", command_line(data)), Event("drain", <<>>)>>
        inner ==
            IF writer = None THEN Outcome(tivo, None, <<>>)
            ELSE IF wr # None THEN Outcome(tivo, wr, sent \o sent)
            ELSE IF wait_for_reply
            THEN [wait_for_data(reader, tivo, callbacks, rd, cbr) EXCEPT !.io = sent \o @]
            ELSE Outcome(tivo, None, sent)
    IN  [inner EXCEPT !.raised = IF @ = None THEN None ELSE Some(_send_except(@[1]))]

\* a _send without the test of the writer: with no writer it goes on to the reply-wait
_send_unguarded(data, wait_for_reply, writer, reader, tivo, callbacks, wr, rd, cbr) ==
    LET sent == <<Event("write", command_line(data)), Event("drain", <<>>)>>
        inner ==
            IF writer = None
            THEN wait_for_data(reader, tivo, callbacks, rd, cbr)
            ELSE IF wr # None THEN Outcome(tivo, wr, sent)
            ELSE IF wait_for_reply
            THEN [wait_for_data(reader, tivo, callbacks, rd, cbr) EXCEPT !.io = sent \o @]
            ELSE Outcome(tivo, None, sent)
    IN  [inner EXCEPT !.raised = IF @ = None THEN None ELSE Some(_send_except(@[1]))]

\* Client._send(data, wait_for_reply)
_send(data, wait_for_reply, writer, reader, tivo, callbacks, wr, rd, cbr) ==
    LET sent == <<Event("write", command_line(data)), Event("drain", <<>>)>>
        inner ==
            IF writer = None THEN Outcome(tivo, None, <<>>)
            ELSE IF wr # None THEN Outcome(tivo, wr, sent)
            ELSE IF wait_for_reply
            THEN [wait_for_data(reader, tivo, callbacks, rd, cbr) EXCEPT !.io = sent \o @]
            ELSE Outcome(tivo, None, sent)
    IN  [inner EXCEPT !.raised = IF @ = None THEN None ELSE Some(_send_except(@[1]))]

\* the except clause of send_keyboard in send_ircode: an unmapped error is only logged
send_ircode_except_logged(err, code) ==
    IF isVirginMediaError(err)
    THEN IF lower(err.message) = <<"i", "n", "v", "a", "l", "i", "d", "_", "k", "e", "y">>
         THEN Some(VirginMediaInvalidKey(code))
         ELSE None
    ELSE None

\* the except clauses of Client.send_ircode
send_ircode_except(err, code) ==
    IF isVirginMediaError(err)
    THEN IF lower(err.message) = <<"i", "n", "v", "a", "l", "i", "d", "_", "k", "e", "y">>
         THEN Some(VirginMediaInvalidKey(code))
         ELSE Some(err)
    ELSE None  \* except Exception: logged

\* InvalidKey carrying the code as it went on the wire
send_keyboard_except_wire(err, code) ==
    IF isVirginMediaError(err)
    THEN IF lower(err.message) = <<"i", "n", "v", "a", "l", "i", "d", "_", "k", "e", "y">>
         THEN Some(VirginMediaInvalidKey(upper(code)))
         ELSE None
    ELSE Some(err)

\* the except clause of Client.send_keyboard
send_keyboard_except(err, code) ==
    IF isVirginMediaError(err)
    THEN IF lower(err.message) = <<"i", "n", "v", "a", "l", "i", "d", "_", "k", "e", "y">>
         THEN Some(VirginMediaInvalidKey(code))
         ELSE None
    ELSE Some(err)

\* a comparison with the message as the device sent it, never lower-cased
send_teleport_except_cased(err, code) ==
    IF isVirginMediaError(err)
    THEN IF err.message = <<"i", "n", "v", "a", "l", "i", "d", "_", "c", "o", "m", "m", "a", "n", "d">>
         THEN Some(VirginMediaInvalidCommand(code))
         ELSE None
    ELSE Some(err)

\* the except clause of Client.send_teleport
send_teleport_except(err, code) ==
    IF isVirginMediaError(err)
    THEN IF lower(err.message) = <<"i", "n", "v", "a", "l", "i", "d", "_", "c", "o", "m", "m", "a", "n", "d">>
         THEN Some(VirginMediaInvalidCommand(code))
         ELSE None
    ELSE Some(err)

\* NotLive raised for every failure reason
set_channel_except_notlive(err, channel_number) ==
    IF isVirginMediaError(err) THEN Some(VirginMediaNotLive) ELSE Some(err)

\* the except clause of Client.set_channel
set_channel_except(err, channel_number) ==
    IF isVirginMediaError(err)
    THEN IF lower(err.message) = <<"n", "o", "_", "l", "i", "v", "e">>
         THEN Some(VirginMediaNotLive)
         ELSE IF lower(err.message) = <<"i", "n", "v", "a", "l", "i", "d", "_", "c", "h", "a", "n", "n", "e", "l">>
         THEN Some(VirginMediaInvalidChannel(channel_number))
         ELSE Some(err)
    ELSE Some(err)

\* Client.send_ircode(code, wait_for_reply)
send_ircode(code, wait_for_reply, writer, reader, tivo, callbacks, wr, rd, cbr) ==
    [_send(<<"i", "r", "c", "o", "d", "e", " ">> \o code, wait_for_reply,
           writer, reader, tivo, callbacks, wr, rd, cbr)
        EXCEPT !.raised = IF @ = None THEN None ELSE send_ircode_except(@[1], code)]

\* Client.send_keyboard(code, wait_for_reply)
send_keyboard(code, wait_for_reply, writer, reader, tivo, callbacks, wr, rd, cbr) ==
    [_send(<<"k", "e", "y", "b", "o", "a", "r", "d", " ">> \o code, wait_for_reply,
           writer, reader, tivo, callbacks, wr, rd, cbr)
        EXCEPT !.raised = IF @ = None THEN None ELSE send_keyboard_except(@[1], code)]

\* Client.send_teleport(code)
send_teleport(code, writer, reader, tivo, callbacks, wr, rd, cbr) ==
    [_send(<<"t", "e", "l", "e", "p", "o", "r", "t", " ">> \o code, TRUE,
           writer, reader, tivo, callbacks, wr, rd, cbr)
        EXCEPT !.raised = IF @ = None THEN None ELSE send_teleport_except(@[1], code)]

\* Client.set_channel(channel_number)
set_channel(channel_number, writer, reader, tivo, callbacks, wr, rd, cbr) ==
    [_send(<<"s", "e", "t", "c", "h", " ">> \o str_int(channel_number), TRUE,
           writer, reader, tivo, callbacks, wr, rd, cbr)
        EXCEPT !.raised = IF @ = None THEN None ELSE set_channel_except(@[1], channel_number)]

(***************************************************************************)
(* What the callers and the peer supply.                                   *)
(***************************************************************************)
CallbackIds == {"f", "g"}
Codes == {<<"s", "t", "a", "n", "d", "b", "y">>, <<"B", "o", "g", "u", "s">>}
Channels == {105, 999}

\* what write()/drain() raise when they fail
WriteErrors ==
    {Exc("ConnectionResetError", <<"C", "o", "n", "n", "e", "c", "t", "i", "o", "n", " ", "l", "o", "s", "t">>),
     Exc("BrokenPipeError", <<>>),
     Exc("TimeoutError", <<>>)}

\* what the bounded read raises when it fails: the reply timeout, or the socket
ReadErrors ==
    {Exc("TimeoutError", <<>>), Exc("ConnectionResetError", <<>>), Exc("RuntimeError", <<>>)}

\* the bytes one read returns
Replies ==
    {<<"C", "H", "_", "S", "T", "A", "T", "U", "S", " ", "0", "1", "0", "5", " ", "L", "O", "C", "A", "L", "\r", "\n">>,
     <<"C", "H", "_", "S", "T", "A", "T", "U", "S", " ", "0", "1", "0", "1", " ", "R", "E", "M", "O", "T", "E", "\r", "\n">>,
     <<"C", "H", "_", "S", "T", "A", "T", "U", "S", " ", "9", "9", "9", " ", "L", "O", "C", "A", "L", "\r", "\n">>,
     <<"C", "H", "_", "S", "T", "A", "T", "U", "S", " ", "0", "1", "0", "5", " ", "L", "O", "C", "A", "L", "\r", "\n", "C", "H", "_", "S", "T", "A", "T", "U", "S", " ", "0", "1", "0", "1", " ", "L", "O", "C", "A", "L", "\r", "\n">>,
     <<"C", "H", "_", "F", "A", "I", "L", "E", "D", " ", "N", "O", "_", "L", "I", "V", "E", "\r", "\n">>,
     <<"C", "H", "_", "F", "A", "I", "L", "E", "D", " ", "I", "N", "V", "A", "L", "I", "D", "_", "C", "H", "A", "N", "N", "E", "L", "\r", "\n">>,
     <<"C", "H", "_", "F", "A", "I", "L", "E", "D", " ", "M", "A", "L", "F", "O", "R", "M", "E", "D", "_", "C", "H", "A", "N", "N", "E", "L", "\r", "\n">>,
     <<"C", "H", "_", "F", "A", "I", "L", "E", "D", "\t", "N", "O", "_", "L", "I", "V", "E", "\r", "\n">>,
     <<"C", "H", "_", "F", "A", "I", "L", "E", "D", " ", "S", "E", "T", "C", "H", " ", "N", "O", "_", "L", "I", "V", "E", "\r", "\n">>,
     <<"I", "N", "V", "A", "L", "I", "D", "_", "K", "E", "Y", "\r", "\n">>,
     <<"I", "N", "V", "A", "L", "I", "D", "_", "C", "O", "M", "M", "A", "N", "D", "\r", "\n">>,
     <<"L", "I", "V", "E", "T", "V", "_", "R", "E", "A", "D", "Y", "\r", "\n">>,
     <<BadByte, "C", "H", "_", "S", "T", "A", "T", "U", "S", " ", "0", "1", "0", "1">>,
     <<"\r", "\n">>,
     <<>>}
    \cup {<<"I", "N", "V", "A", "L", "I", "D", "_", "C", "H", "A", "N", "N", "E", "L", " ">> \o str_int(n) : n \in Channels}

Reads == {ReadData(d) : d \in Replies} \cup {ReadError(e) : e \in ReadErrors}
Writes == {None} \cup {Some(e) : e \in WriteErrors}
Raises(callbacks) == {None} \cup {Some(i) : i \in 1..Len(callbacks)}

\* the status lines of every shape: CH_STATUS followed by up to MaxTail characters
TailChars == {"0", "1", " "}
StatusLines ==
    {<<"C", "H", "_", "S", "T", "A", "T", "U", "S">> \o t :
        t \in UNION {[1..n -> TailChars] : n \in 0..MaxTail}}

(***************************************************************************)
(* The state machine: one action per call of the caller, the whole call.   *)
(***************************************************************************)
NoCall ==
    [op |-> "idle", code |-> <<>>, channel_number |-> 0, wait_for_reply |-> FALSE,
     wr |-> None, rd |-> NoRead, cbr |-> None]
Snapshot ==
    [reader |-> _reader, writer |-> _writer, tivo |-> _tivo, callbacks |-> _data_callback,
     open_sockets |-> open_sockets, scope |-> scope]

\* the tasks, and a task that is in no call
Tasks == 1..MaxTasks
Out == [at |-> "out", op |-> "idle"]

Idle == call.op = "idle"

\* `value or default': the default for None and for 0
or_default(value, default) == IF value = None \/ value = Some(0) THEN default ELSE value[1]

\* a connection on which the peer has been sent no command
NoReplies == [commands |-> 0, unread |-> <<>>, taken |-> <<>>]

\* VirginMediaPlayer.__init__: no state yet (later STATE_OFF "off", STATE_IDLE
\* "idle", STATE_PLAYING "playing" or STATE_PAUSED "paused"), no flag set,
\* the client lock free, no current channel; `channels_caching' tells whether
\* the flag file of _global_flag_channel_cache exists, `idle_timeout' whether
\* the option CONF_IDLE_TIMEOUT is set
VirginMediaPlayer ==
    [_state |-> None,
     _flags |-> [turning_on |-> FALSE, turning_off |-> FALSE],
     _lock_client |-> None,
     _channel_current |-> None,
     channels_caching |-> FALSE,
     idle_timeout |-> FALSE]

\* API.__init__ without an existing session, and no call on it yet: where the
\* call is, its locals `attempts' and `ret', the responses to its channel-list
\* requests, its logins, and what it returned or raised
API ==
    [_auth_session |-> None, at |-> "out", attempts |-> 1, ret |-> "{}",
     responses |-> <<>>, logins |-> 0, returned |-> None, raised |-> None]

\* Client.__init__
Init ==
    /\ _reader = None
    /\ _writer = None
    /\ open_sockets = 0
    /\ scope = "out"
    /\ _tivo = Device
    /\ _data_callback = <<>>
    /\ call = NoCall
    /\ before = Snapshot
    /\ io = <<>>
    /\ raised = None
    /\ _lock_read = None
    /\ pc = [p \in Tasks |-> Out]
    /\ _timeout = Some(DEFAULT_CONNECT_TIMEOUT)
    /\ _command_timeout = or_default(Some(DEFAULT_COMMAND_TIMEOUT), DEFAULT_COMMAND_TIMEOUT)
    /\ unsent = 0
    /\ inbox = NoReplies
    /\ player = VirginMediaPlayer
    /\ api = API

\* the outcome of a command or of wait_for_data becomes the state
Finish(c, out) ==
    /\ call' = c
    /\ before' = Snapshot
    /\ _tivo' = out.tivo
    /\ io' = out.io
    /\ raised' = out.raised
    /\ UNCHANGED <<_reader, _writer, _data_callback, open_sockets>>

SendIrcode(code, wait_for_reply, wr, rd, cbr) ==
    /\ Idle
    /\ \E out \in {send_ircode(code, wait_for_reply, _writer, _reader, _tivo, _data_callback,
                      wr, rd, cbr)} :
           Finish([NoCall EXCEPT !.op = "send_ircode", !.code = code,
                      !.wait_for_reply = wait_for_reply, !.wr = wr, !.rd = rd, !.cbr = cbr], out)

SendKeyboard(code, wait_for_reply, wr, rd, cbr) ==
    /\ Idle
    /\ \E out \in {send_keyboard(code, wait_for_reply, _writer, _reader, _tivo, _data_callback,
                      wr, rd, cbr)} :
           Finish([NoCall EXCEPT !.op = "send_keyboard", !.code = code,
                      !.wait_for_reply = wait_for_reply, !.wr = wr, !.rd = rd, !.cbr = cbr], out)

SendTeleport(code, wr, rd, cbr) ==
    /\ Idle
    /\ \E out \in {send_teleport(code, _writer, _reader, _tivo, _data_callback, wr, rd, cbr)} :
           Finish([NoCall EXCEPT !.op = "send_teleport", !.code = code,
                      !.wait_for_reply = TRUE, !.wr = wr, !.rd = rd, !.cbr = cbr], out)

SetChannel(channel_number, wr, rd, cbr) ==
    /\ Idle
    /\ \E out \in {set_channel(channel_number, _writer, _reader, _tivo, _data_callback,
                      wr, rd, cbr)} :
           Finish([NoCall EXCEPT !.op = "set_channel", !.channel_number = channel_number,
                      !.wait_for_reply = TRUE, !.wr = wr, !.rd = rd, !.cbr = cbr], out)

\* a wait_for_data that gives the connection up when the reply-wait fails
WaitForData_drops(rd, cbr) ==
    /\ Idle
    /\ \E out \in {wait_for_data(_reader, _tivo, _data_callback, rd, cbr)} :
           /\ call' = [NoCall EXCEPT !.op = "wait_for_data", !.rd = rd, !.cbr = cbr]
           /\ before' = Snapshot
           /\ _tivo' = out.tivo
           /\ io' = out.io
           /\ raised' = out.raised
           /\ _reader' = IF out.raised = None THEN _reader ELSE None
           /\ _writer' = IF out.raised = None THEN _writer ELSE None
           /\ UNCHANGED <<_data_callback, open_sockets>>

WaitForData(rd, cbr) ==
    /\ Idle
    /\ \E out \in {wait_for_data(_reader, _tivo, _data_callback, rd, cbr)} :
           Finish([NoCall EXCEPT !.op = "wait_for_data", !.rd = rd, !.cbr = cbr], out)

\* the caller takes the outcome of its call; the Client is as the call left it
Return ==
    /\ ~Idle
    /\ call' = NoCall
    /\ before' = Snapshot
    /\ io' = <<>>
    /\ raised' = None
    /\ UNCHANGED <<_reader, _writer, _tivo, _data_callback, open_sockets>>

\* the exceptions Client.connect catches: OSError and its subclasses, asyncio.TimeoutError
ConnectCaught ==
    {"OSError", "ConnectionError", "ConnectionResetError", "ConnectionRefusedError",
     "ConnectionAbortedError", "BrokenPipeError", "InterruptedError", "TimeoutError"}

\* OSError and subclasses of it, one of them (InterruptedError) no key of
\* DEFAULT_ERROR_MESSAGES; raised with no argument, str() of them is empty
OSErrorTypes ==
    {"OSError", "ConnectionError", "ConnectionResetError", "ConnectionAbortedError",
     "BrokenPipeError", "InterruptedError"}

\* what asyncio.open_connection under wait_for raises when it fails
ConnectErrors ==
    {Exc("TimeoutError", <<>>), Exc("ConnectionRefusedError", <<>>),
     Exc("OSError", <<"N", "o", " ", "r", "o", "u", "t", "e">>)}
    \cup {Exc(type, <<>>) : type \in OSErrorTypes}

\* a connect that lets every failure but the timeout through as it is
connect_except_timeout_only(err) ==
    IF isTimeoutError(err) THEN VirginMediaCommandTimeout ELSE err

\* the except clause of Client.connect
connect_except(err) ==
    IF err.type \in ConnectCaught
    THEN IF isTimeoutError(err) THEN VirginMediaCommandTimeout
         ELSE VirginMediaError(format_error_message(err))
    ELSE err

\* the stream writer of an open connection; close() makes it closing
StreamWriter == [closing |-> FALSE]

\* what StreamWriter.wait_closed raises when the connection was lost with an error
CloseErrors == {Exc("ConnectionResetError", <<>>)}

\* Client.connect(): co is None when the connection opens, else what opening
\* raised.  The handles are assigned only when the connection opened; the
\* writer they replace is not closed by connect, and `fin' tells whether the
\* interpreter closes it when it is dropped.
Connect(co, fin) ==
    /\ Idle
    /\ call' = [NoCall EXCEPT !.op = "connect", !.wr = co]
    /\ before' = Snapshot
    /\ IF co = None
       THEN /\ open_sockets < MaxSockets
            /\ _reader' = Some("reader")
            /\ _writer' = Some(StreamWriter)
            /\ open_sockets' =
                   IF _writer # None /\ ~_writer[1].closing /\ fin
                   THEN open_sockets
                   ELSE open_sockets + 1
            /\ raised' = None
       ELSE /\ UNCHANGED <<_reader, _writer, open_sockets>>
            /\ raised' = Some(connect_except(co[1]))
    /\ io' = <<Event("open", <<>>)>>
    /\ UNCHANGED <<_tivo, _data_callback>>

\* a disconnect that also forgets the channel
Disconnect_resets(cl) ==
    /\ Idle
    /\ call' = [NoCall EXCEPT !.op = "disconnect", !.wr = cl]
    /\ before' = Snapshot
    /\ IF _writer # None
       THEN /\ open_sockets' = IF _writer[1].closing THEN open_sockets ELSE open_sockets - 1
            /\ io' = <<Event("close", <<>>), Event("wait_closed", <<>>)>>
            /\ IF cl = None
               THEN _writer' = None /\ _reader' = None /\ raised' = None
               ELSE /\ _writer' = Some([_writer[1] EXCEPT !.closing = TRUE])
                    /\ UNCHANGED _reader
                    /\ raised' = cl
            /\ _tivo' = Device
       ELSE /\ UNCHANGED <<_reader, _writer, open_sockets, _tivo>>
            /\ io' = <<>>
            /\ raised' = None
    /\ UNCHANGED _data_callback

\* Client.disconnect(): with a writer, close() closes the socket and
\* wait_closed() is awaited; cl is None when it returns, else what it raised,
\* and then the two assignments that clear the handles are not reached
Disconnect(cl) ==
    /\ Idle
    /\ call' = [NoCall EXCEPT !.op = "disconnect", !.wr = cl]
    /\ before' = Snapshot
    /\ IF _writer # None
       THEN /\ open_sockets' = IF _writer[1].closing THEN open_sockets ELSE open_sockets - 1
            /\ io' = <<Event("close", <<>>), Event("wait_closed", <<>>)>>
            /\ IF cl = None
               THEN _writer' = None /\ _reader' = None /\ raised' = None
               ELSE /\ _writer' = Some([_writer[1] EXCEPT !.closing = TRUE])
                    /\ UNCHANGED _reader
                    /\ raised' = cl
       ELSE /\ UNCHANGED <<_reader, _writer, open_sockets>>
            /\ io' = <<>>
            /\ raised' = None
    /\ UNCHANGED <<_tivo, _data_callback>>

\* list.remove(x): the first occurrence removed, ValueError when there is none
list_remove(list, x) ==
    IF IsIn(x, list)
    THEN LET first == CHOOSE i \in 1..Len(list) :
                          list[i] = x /\ \A j \in 1..Len(list) : list[j] = x => i <= j
         IN  Some(SubSeq(list, 1, first - 1) \o SubSeq(list, first + 1, Len(list)))
    ELSE None

\* an add_data_callback that keeps one registration of each callback
AddDataCallback_once(callback) ==
    /\ Idle
    /\ Len(_data_callback) < MaxCallbacks
    /\ call' = [NoCall EXCEPT !.op = "add_data_callback", !.code = <<callback>>]
    /\ before' = Snapshot
    /\ _data_callback' =
           IF IsIn(callback, _data_callback) THEN _data_callback
           ELSE Append(_data_callback, callback)
    /\ io' = <<>>
    /\ raised' = None
    /\ UNCHANGED <<_reader, _writer, _tivo, open_sockets>>

\* Client.add_data_callback(callback)
AddDataCallback(callback) ==
    /\ Idle
    /\ Len(_data_callback) < MaxCallbacks
    /\ call' = [NoCall EXCEPT !.op = "add_data_callback", !.code = <<callback>>]
    /\ before' = Snapshot
    /\ _data_callback' = Append(_data_callback, callback)
    /\ io' = <<>>
    /\ raised' = None
    /\ UNCHANGED <<_reader, _writer, _tivo, open_sockets>>

\* a remove_data_callback without the except clause: the ValueError of
\* list.remove reaches the caller
RemoveDataCallback_unguarded(callback) ==
    /\ Idle
    /\ call' = [NoCall EXCEPT !.op = "remove_data_callback", !.code = <<callback>>]
    /\ before' = Snapshot
    /\ _data_callback' =
           LET r == list_remove(_data_callback, callback)
           IN  IF r = None THEN _data_callback ELSE r[1]
    /\ io' = <<>>
    /\ raised' =
           IF list_remove(_data_callback, callback) = None
           THEN Some(Exc("ValueError", <<"l", "i", "s", "t", ".", "r", "e", "m", "o", "v", "e", "(", "x", ")", ":", " ", "x", " ", "n", "o", "t", " ", "i", "n", " ", "l", "i", "s", "t">>))
           ELSE None
    /\ UNCHANGED <<_reader, _writer, _tivo, open_sockets>>

\* Client.remove_data_callback(callback)
RemoveDataCallback(callback) ==
    /\ Idle
    /\ call' = [NoCall EXCEPT !.op = "remove_data_callback", !.code = <<callback>>]
    /\ before' = Snapshot
    /\ _data_callback' =
           LET r == list_remove(_data_callback, callback)
           IN  IF r = None THEN _data_callback ELSE r[1]  \* except ValueError: pass
    /\ io' = <<>>
    /\ raised' = None
    /\ UNCHANGED <<_reader, _writer, _tivo, open_sockets>>

\* An input that cannot matter is left at its default: the write outcome only
\* with a writer, what the device sends back only when the command went out on
\* an open connection (whether or not the call then reads it), a raising
\* callback only when the callbacks run.
WritesNow == IF _writer = None THEN {None} ELSE Writes
ReadsAfter(wr) ==
    IF _writer # None /\ wr = None /\ _reader # None THEN Reads ELSE {NoRead}
RaisesAfter(rd) ==
    IF rd.kind # "none"
       /\ wait_for_data(_reader, _tivo, _data_callback, rd, None).raised = None
    THEN Raises(_data_callback)
    ELSE {None}

\* whether the interpreter closes a dropped writer matters only when connect
\* replaces the writer of an open socket
FinalizesAfter(co) ==
    IF co = None /\ _writer # None /\ ~_writer[1].closing THEN BOOLEAN ELSE {FALSE}

\* one caller, no `async with' block: the lock is free between calls
\* the timeouts are those of the constructor for the life of the Client
\* the timeouts are set when the Client is constructed; the replies in
\* flight, the player and the guide API have their own specifications
Configured == UNCHANGED <<_timeout, _command_timeout, inbox, player, api>>

Sequential == UNCHANGED <<scope, _lock_read, pc, unsent>> /\ Configured

\* what wait_closed raises is consulted only with a writer
ClosesNow == IF _writer = None THEN {None} ELSE {None} \cup {Some(e) : e \in CloseErrors}

\* The caller makes its next call once it has taken the outcome of the last
\* one.  This caller connects a Client that has no connection, and its
\* connections close cleanly; SpecConn has the caller that connects at any
\* time and the connections lost with an error.
Next ==
    \/ Idle /\ Sequential /\ _writer = None
            /\ \E co \in {None} \cup {Some(e) : e \in ConnectErrors} : Connect(co, FALSE)
    \/ Idle /\ Sequential /\ Disconnect(None)
    \/ Idle /\ Sequential /\ \E code \in Codes, w \in BOOLEAN, wr \in WritesNow :
          \E rd \in ReadsAfter(wr) : \E cbr \in (IF w THEN RaisesAfter(rd) ELSE {None}) :
              SendIrcode(code, w, wr, rd, cbr)
    \/ Idle /\ Sequential /\ \E code \in Codes, w \in BOOLEAN, wr \in WritesNow :
          \E rd \in ReadsAfter(wr) : \E cbr \in (IF w THEN RaisesAfter(rd) ELSE {None}) :
              SendKeyboard(code, w, wr, rd, cbr)
    \/ Idle /\ Sequential /\ \E code \in Codes, wr \in WritesNow :
          \E rd \in ReadsAfter(wr) : \E cbr \in RaisesAfter(rd) :
              SendTeleport(code, wr, rd, cbr)
    \/ Idle /\ Sequential /\ \E n \in Channels, wr \in WritesNow :
          \E rd \in ReadsAfter(wr) : \E cbr \in RaisesAfter(rd) :
              SetChannel(n, wr, rd, cbr)
    \/ Idle /\ Sequential /\ \E rd \in (IF _reader = None THEN {NoRead} ELSE Reads) :
          \E cbr \in RaisesAfter(rd) : WaitForData(rd, cbr)
    \/ Idle /\ Sequential /\ \E f \in CallbackIds : AddDataCallback(f)
    \/ Idle /\ Sequential /\ \E f \in CallbackIds : RemoveDataCallback(f)
    \/ Return /\ Sequential

Spec == Init /\ [][Next]_vars

(***************************************************************************)
(* The reply parser on status lines of every shape: a connected Client     *)
(* with no callback, and wait_for_data reading one generated line a call.  *)
(***************************************************************************)
InitParse ==
    /\ _reader = Some("reader")
    /\ _writer = Some(StreamWriter)
    /\ open_sockets = 1
    /\ scope = "out"
    /\ _tivo = Device
    /\ _data_callback = <<>>
    /\ call = NoCall
    /\ before = Snapshot
    /\ io = <<>>
    /\ raised = None
    /\ _lock_read = None
    /\ pc = [p \in Tasks |-> Out]
    /\ _timeout = Some(DEFAULT_CONNECT_TIMEOUT)
    /\ _command_timeout = or_default(Some(DEFAULT_COMMAND_TIMEOUT), DEFAULT_COMMAND_TIMEOUT)
    /\ unsent = 0
    /\ inbox = NoReplies
    /\ player = VirginMediaPlayer
    /\ api = API

NextParse ==
    \/ Idle /\ Sequential /\ \E line \in StatusLines : WaitForData(ReadData(line), None)
    \/ Return /\ Sequential

SpecParse == InitParse /\ [][NextParse]_vars

(***************************************************************************)
(* Connections: connect and disconnect called in any order on one Client,  *)
(* connections that fail to open, connections lost with an error, and      *)
(* reply-waits in between.                                                 *)
(***************************************************************************)
ConnReads ==
    {ReadData(<<"C", "H", "_", "S", "T", "A", "T", "U", "S", " ", "0", "1", "0", "5", " ", "L", "O", "C", "A", "L", "\r", "\n">>),
     ReadData(<<>>),
     ReadError(Exc("TimeoutError", <<>>)),
     ReadError(Exc("ConnectionResetError", <<>>))}

NextConn ==
    \/ Idle /\ Sequential
            /\ \E co \in {None} \cup {Some(e) : e \in ConnectErrors} :
                   \E fin \in FinalizesAfter(co) : Connect(co, fin)
    \/ Idle /\ Sequential /\ \E cl \in ClosesNow : Disconnect(cl)
    \/ Idle /\ Sequential /\ \E rd \in (IF _reader = None THEN {NoRead} ELSE ConnReads) :
          WaitForData(rd, None)
    \/ Idle /\ Sequential /\ \E n \in Channels, wr \in WritesNow :
          \E rd \in (IF ReadsAfter(wr) = {NoRead} THEN {NoRead} ELSE ConnReads) :
              SetChannel(n, wr, rd, None)
    \/ Return /\ Sequential

SpecConn == Init /\ [][NextConn]_vars

(***************************************************************************)
(* The context manager: a Client used only through `async with client:',   *)
(* the commands of the block in between.  A command that raises leaves the *)
(* block through __aexit__ like one that returns.                          *)
(***************************************************************************)
\* Client.__aenter__: connect; the block is entered when connect returns
AEnter(co, fin) ==
    /\ scope # "in"
    /\ Connect(co, fin)
    /\ scope' = IF co = None THEN "in" ELSE "failed"

\* Client.__aexit__: disconnect
AExit(cl) ==
    /\ scope = "in"
    /\ Disconnect(cl)
    /\ scope' = "out"

NextWith ==
    \/ Idle /\ UNCHANGED <<_lock_read, pc, unsent>> /\ Configured
            /\ \E co \in {None} \cup {Some(e) : e \in ConnectErrors} :
                   \E fin \in FinalizesAfter(co) : AEnter(co, fin)
    \/ Idle /\ UNCHANGED <<_lock_read, pc, unsent>> /\ Configured
            /\ \E cl \in ClosesNow : AExit(cl)
    \/ Idle /\ Sequential /\ scope = "in" /\ \E rd \in ConnReads : WaitForData(rd, None)
    \/ Idle /\ Sequential /\ scope = "in" /\ \E n \in Channels, wr \in WritesNow :
          \E rd \in (IF ReadsAfter(wr) = {NoRead} THEN {NoRead} ELSE ConnReads) :
              SetChannel(n, wr, rd, None)
    \/ Idle /\ Sequential /\ scope = "in" /\ \E code \in Codes, wr \in WritesNow :
          SendIrcode(code, FALSE, wr, NoRead, None)
    \/ Return /\ Sequential

SpecWith == Init /\ [][NextWith]_vars

(***************************************************************************)
(* The read lock: tasks that call into one connected Client concurrently.  *)
(* A task gives way to the others where the code awaits: at the lock and   *)
(* at the read.  From the end of the read to the end of wait_for_data      *)
(* nothing is awaited: the parsing and the callbacks are one step.         *)
(***************************************************************************)
\* asyncio.Lock that never reports itself taken
locked_never(lock) == FALSE

\* asyncio.Lock.locked()
locked(lock) == lock # None

\* a lock released when the block returns and kept when it raises
lock_read_exit_on_return(task, out) == IF out.raised = None THEN None ELSE Some(task)

\* leaving `async with self._lock_read:', by return or by exception, releases the lock
lock_read_exit(task, out) == None

LockReads ==
    {ReadData(<<"C", "H", "_", "S", "T", "A", "T", "U", "S", " ", "0", "1", "0", "5", " ", "L", "O", "C", "A", "L", "\r", "\n">>),
     ReadData(<<"C", "H", "_", "S", "T", "A", "T", "U", "S", " ", "0", "1", "0", "1", " ", "R", "E", "M", "O", "T", "E", "\r", "\n">>),
     ReadData(<<"C", "H", "_", "F", "A", "I", "L", "E", "D", " ", "N", "O", "_", "L", "I", "V", "E", "\r", "\n">>),
     ReadData(<<>>),
     ReadError(Exc("TimeoutError", <<>>)),
     ReadError(Exc("ConnectionResetError", <<>>))}

InitLock ==
    /\ _reader = Some("reader")
    /\ _writer = Some(StreamWriter)
    /\ open_sockets = 1
    /\ scope = "out"
    /\ _tivo = Device
    /\ _data_callback = <<"f">>
    /\ call = NoCall
    /\ before = Snapshot
    /\ io = <<>>
    /\ raised = None
    /\ _lock_read = None
    /\ pc = [p \in Tasks |-> Out]
    /\ _timeout = Some(DEFAULT_CONNECT_TIMEOUT)
    /\ _command_timeout = or_default(Some(DEFAULT_COMMAND_TIMEOUT), DEFAULT_COMMAND_TIMEOUT)
    /\ unsent = 0
    /\ inbox = NoReplies
    /\ player = VirginMediaPlayer
    /\ api = API

\* a task calls wait_for_data, or send_ircode whose write and drain have
\* completed, and comes to `async with self._lock_read'
Start(p, op) ==
    /\ pc[p].at = "out"
    /\ pc' = [pc EXCEPT ![p] = [at |-> "lock", op |-> op]]
    /\ UNCHANGED <<_reader, _writer, _tivo, _data_callback, call, before, io, raised,
                   open_sockets, scope, _lock_read, unsent>>
    /\ Configured

\* the task takes the lock when it is free and starts its read
Acquire(p) ==
    /\ pc[p].at = "lock"
    /\ ~locked(_lock_read)
    /\ _lock_read' = Some(p)
    /\ pc' = [pc EXCEPT ![p].at = "read"]
    /\ UNCHANGED <<_reader, _writer, _tivo, _data_callback, call, before, io, raised,
                   open_sockets, scope, unsent>>
    /\ Configured

\* the read of the task ends; the rest of wait_for_data runs, the lock is
\* left, and the call of the task ends
Complete(p, rd, cbr) ==
    /\ pc[p].at = "read"
    /\ \E out \in {IF pc[p].op = "wait_for_data"
                    THEN wait_for_data(_reader, _tivo, _data_callback, rd, cbr)
                    ELSE send_ircode(<<"s", "t", "a", "n", "d", "b", "y">>, TRUE, _writer, _reader, _tivo,
                                     _data_callback, None, rd, cbr)} :
           /\ Finish([NoCall EXCEPT !.op = pc[p].op, !.wait_for_reply = TRUE,
                         !.code = IF pc[p].op = "wait_for_data" THEN <<>> ELSE <<"s", "t", "a", "n", "d", "b", "y">>,
                         !.rd = rd, !.cbr = cbr], out)
           /\ _lock_read' = lock_read_exit(p, out)
    /\ pc' = [pc EXCEPT ![p] = Out]
    /\ UNCHANGED <<scope, unsent>>
    /\ Configured

NextLock ==
    \/ \E p \in Tasks, op \in {"wait_for_data", "send_ircode"} : Start(p, op)
    \/ \E p \in Tasks : Acquire(p)
    \/ \E p \in Tasks, rd \in LockReads : \E cbr \in RaisesAfter(rd) : Complete(p, rd, cbr)

SpecLock == InitLock /\ [][NextLock]_vars

(***************************************************************************)
(* The suspension points: one caller whose call stops where the code       *)
(* awaits -- the open under wait_for in connect, the drain in _send, the   *)
(* read under wait_for in wait_for_data -- and goes on when what it awaits *)
(* on ends.  The peer accepts, takes what was written and replies when it  *)
(* does, and may never do so; a timer that was set expires.                *)
(***************************************************************************)
Caller == 1
MaxUnsent == HighWater + 1

\* the timeout and command_timeout the constructor is given
Timeouts == {None, Some(0), Some(DEFAULT_CONNECT_TIMEOUT)}
CommandTimeouts == {None, Some(0), Some(DEFAULT_COMMAND_TIMEOUT), Some(5)}

\* Client.__init__(host, port, timeout, command_timeout)
InitWait ==
    /\ _reader = None
    /\ _writer = None
    /\ open_sockets = 0
    /\ scope = "out"
    /\ _tivo = Device
    /\ _data_callback = <<>>
    /\ call = NoCall
    /\ before = Snapshot
    /\ io = <<>>
    /\ raised = None
    /\ _lock_read = None
    /\ pc = [p \in Tasks |-> Out]
    /\ _timeout \in Timeouts
    /\ \E command_timeout \in CommandTimeouts :
           _command_timeout = or_default(command_timeout, DEFAULT_COMMAND_TIMEOUT)
    /\ unsent = 0
    /\ inbox = NoReplies
    /\ player = VirginMediaPlayer
    /\ api = API

Suspended == pc[Caller].at # "out"

\* connect() comes to `await asyncio.wait_for(open_future, self._timeout)'
BeginConnect ==
    /\ Idle
    /\ ~Suspended
    /\ _writer = None
    /\ pc' = [pc EXCEPT ![Caller] = [at |-> "open", op |-> "connect"]]
    /\ UNCHANGED <<_reader, _writer, _tivo, _data_callback, call, before, io, raised,
                   open_sockets, scope, _lock_read, unsent>>
    /\ Configured

\* a command on a Client with a writer has written its line and comes to
\* `await self._writer.drain()': send_ircode that does not wait for the
\* reply, or set_channel
BeginCommand(op) ==
    /\ Idle
    /\ ~Suspended
    /\ _writer # None
    /\ unsent < MaxUnsent
    /\ unsent' = unsent + 1
    /\ pc' = [pc EXCEPT ![Caller] = [at |-> "drain", op |-> op]]
    /\ UNCHANGED <<_reader, _writer, _tivo, _data_callback, call, before, io, raised,
                   open_sockets, scope, _lock_read>>
    /\ Configured

\* wait_for_data() comes to `await asyncio.wait_for(data_future, ...)'
BeginWait ==
    /\ Idle
    /\ ~Suspended
    /\ _reader # None
    /\ pc' = [pc EXCEPT ![Caller] = [at |-> "read", op |-> "wait_for_data"]]
    /\ UNCHANGED <<_reader, _writer, _tivo, _data_callback, call, before, io, raised,
                   open_sockets, scope, _lock_read, unsent>>
    /\ Configured

\* the open ends: the peer accepted (never within a timeout of 0), the
\* timer of wait_for expired (there is none when the timeout is None), or
\* the operating system gave the attempt up
Opened(co) ==
    /\ pc[Caller].at = "open"
    /\ IF co = None THEN (IF _timeout = None THEN TRUE ELSE _timeout[1] > 0)
       ELSE (IF isTimeoutError(co[1]) THEN _timeout # None ELSE TRUE)
    /\ Connect(co, FALSE)
    /\ pc' = [pc EXCEPT ![Caller] = Out]
    /\ UNCHANGED <<scope, _lock_read, unsent>>
    /\ Configured

\* drain() returns once the transport buffers no more than the high-water
\* mark; nothing in _send limits how long that takes.  send_ircode then
\* returns, set_channel goes on to its reply-wait.
Drained ==
    /\ pc[Caller].at = "drain"
    /\ unsent <= HighWater
    /\ IF pc[Caller].op = "send_ircode"
       THEN /\ SendIrcode(<<"s", "t", "a", "n", "d", "b", "y">>, FALSE, None, NoRead, None)
            /\ pc' = [pc EXCEPT ![Caller] = Out]
       ELSE /\ pc' = [pc EXCEPT ![Caller].at = "read"]
            /\ UNCHANGED <<_reader, _writer, _tivo, _data_callback, call, before, io, raised,
                           open_sockets>>
    /\ UNCHANGED <<scope, _lock_read, unsent>>
    /\ Configured

\* the connection is lost while drain() waits
DrainFails(wr) ==
    /\ pc[Caller].at = "drain"
    /\ IF pc[Caller].op = "send_ircode"
       THEN SendIrcode(<<"s", "t", "a", "n", "d", "b", "y">>, FALSE, wr, NoRead, None)
       ELSE SetChannel(105, wr, NoRead, None)
    /\ pc' = [pc EXCEPT ![Caller] = Out]
    /\ UNCHANGED <<scope, _lock_read, unsent>>
    /\ Configured

\* the read ends: with what the peer sent, with the failure of the
\* connection, or with the timer of wait_for, which self._command_timeout
\* always sets
Replied(rd) ==
    /\ pc[Caller].at = "read"
    /\ IF pc[Caller].op = "wait_for_data"
       THEN WaitForData(rd, None)
       ELSE SetChannel(105, None, rd, None)
    /\ pc' = [pc EXCEPT ![Caller] = Out]
    /\ UNCHANGED <<scope, _lock_read, unsent>>
    /\ Configured

\* the peer takes a line off the connection
PeerTakes ==
    /\ unsent > 0
    /\ unsent' = unsent - 1
    /\ UNCHANGED <<_reader, _writer, _tivo, _data_callback, call, before, io, raised,
                   open_sockets, scope, _lock_read, pc>>
    /\ Configured

OpenTimeout == Opened(Some(Exc("TimeoutError", <<>>)))
OpenGivenUp == Opened(Some(Exc("OSError", <<"N", "o", " ", "r", "o", "u", "t", "e">>)))
ReplyTimeout == Replied(ReadError(Exc("TimeoutError", <<>>)))

NextWait ==
    \/ BeginConnect
    \/ \E op \in {"send_ircode", "set_channel"} : BeginCommand(op)
    \/ BeginWait
    \/ Opened(None)
    \/ OpenTimeout
    \/ OpenGivenUp
    \/ Drained
    \/ \E e \in WriteErrors : DrainFails(Some(e))
    \/ \E rd \in ConnReads \ {ReadError(Exc("TimeoutError", <<>>))} : Replied(rd)
    \/ ReplyTimeout
    \/ PeerTakes
    \/ Return /\ Sequential

\* What ends without the peer is bound to happen: a timer that was set
\* expires, the operating system gives up a connection attempt nobody
\* answers, and drain() returns when the buffer is low enough.
SpecWait ==
    /\ InitWait
    /\ [][NextWait]_vars
    /\ WF_vars(OpenTimeout)
    /\ WF_vars(OpenGivenUp)
    /\ WF_vars(Drained)
    /\ WF_vars(ReplyTimeout)

(***************************************************************************)
(* Replies on one connection.  The peer answers the commands in the order  *)
(* it gets them, and its answers wait in the socket until a reply-wait     *)
(* reads them: a command sent with wait_for_reply false leaves its answer  *)
(* there.  `inbox.unread' holds the answers not read yet, each with the    *)
(* number of the command it answers; `inbox.taken' the ones the last call  *)
(* read.                                                                   *)
(***************************************************************************)
MaxCommands == 3    \* commands sent on one connection

\* the codes the peer knows; it answers INVALID_KEY to any other
KnownCodes == {<<"s", "t", "a", "n", "d", "b", "y">>}

\* what the peer sends back to command number n: INVALID_KEY for a code it
\* does not know, and for one it knows a status line or nothing
peer_reply(code, n, status) ==
    IF code \notin KnownCodes
    THEN <<[line |-> <<"I", "N", "V", "A", "L", "I", "D", "_", "K", "E", "Y", "\r", "\n">>, to |-> n]>>
    ELSE IF status
    THEN <<[line |-> <<"C", "H", "_", "S", "T", "A", "T", "U", "S", " ", "0", "1", "0", "5", " ", "L", "O", "C", "A", "L", "\r", "\n">>, to |-> n]>>
    ELSE <<>>

\* the bytes of replies, one after the other as they are in the socket
RECURSIVE received(_)
received(replies) ==
    IF replies = <<>> THEN <<>> ELSE Head(replies).line \o received(Tail(replies))

\* self._reader.read(buffer_size) under the reply timeout: the bytes that
\* have arrived, here the first `take' replies, or the timeout when none has
read_replies(arrived, take) ==
    IF take = 0 THEN ReadError(Exc("TimeoutError", <<>>))
    ELSE ReadData(received(SubSeq(arrived, 1, take)))

\* send_ircode or send_keyboard on the connection: the line goes out, the
\* peer answers it, and with wait_for_reply the one read takes what has arrived
CommandSent(op, code, wait_for_reply, status, take) ==
    /\ _writer # None
    /\ inbox.commands < MaxCommands
    /\ LET n == inbox.commands + 1
           arrived == inbox.unread \o peer_reply(code, n, status)
           rd == IF wait_for_reply THEN read_replies(arrived, take) ELSE NoRead
       IN  /\ take <= Len(arrived)
           /\ wait_for_reply \/ take = 0
           /\ IF op = "send_ircode"
              THEN SendIrcode(code, wait_for_reply, None, rd, None)
              ELSE SendKeyboard(code, wait_for_reply, None, rd, None)
           /\ inbox' = [commands |-> n,
                        unread |-> SubSeq(arrived, take + 1, Len(arrived)),
                        taken |-> SubSeq(arrived, 1, take)]

OnConnection ==
    UNCHANGED <<scope, _lock_read, pc, unsent, _timeout, _command_timeout, player, api>>

NextReplies ==
    \/ Idle /\ OnConnection /\ _writer = None /\ Connect(None, FALSE) /\ inbox' = NoReplies
    \/ Idle /\ OnConnection /\ _writer # None /\ Disconnect(None) /\ UNCHANGED inbox
    \/ Idle /\ OnConnection
            /\ \E op \in {"send_ircode", "send_keyboard"}, code \in Codes,
                  w \in BOOLEAN, status \in BOOLEAN, take \in 0..MaxCommands :
                   CommandSent(op, code, w, status, take)
    \/ Return /\ Sequential

SpecReplies == Init /\ [][NextReplies]_vars

(***************************************************************************)
(* The guide API: API.async_get_channels, one step for each request and    *)
(* each login it awaits.  The service answers as it likes; the session     *)
(* raises for a status of 400 or more (raise_for_status).                  *)
(***************************************************************************)
MaxRequests == 3    \* channel-list requests of one call

\* the content of a response that parses as JSON: the channels, or a value
\* Python takes as false
Contents == {"channels", "{}", "[]", "null"}
falsy(content) == content # "channels"

\* what a channel-list request ends in: a response of status 200 with its
\* content, or the status of the ClientResponseError, or 0 for a request
\* that raised another error
Responses ==
    {[status |-> 200, json |-> c] : c \in Contents}
    \cup {[status |-> n, json |-> "{}"] : n \in {403, 500, 0}}

VirginMediaTVGuideError == "VirginMediaTVGuideError"
VirginMediaTVGuideForbidden == "VirginMediaTVGuideForbidden"

\* API(username, password, existing_session)
NewAPI(existing_session) ==
    /\ api.at = "out"
    /\ api' = [API EXCEPT !._auth_session = existing_session]

\* async_get_channels is called: a login first when there is no session
GetChannels ==
    /\ api.at = "out"
    /\ api' = [API EXCEPT !._auth_session = api._auth_session,
                          !.at = IF api._auth_session = None THEN "login" ELSE "loop"]

\* await self.async_login(), before the loop or after a 403: the six steps
\* succeed and leave a session, or one of them raises
Login(ok) ==
    /\ api.at \in {"login", "relogin"}
    /\ api' =
           IF ok
           THEN [api EXCEPT !._auth_session = Some("session"),
                            !.logins = @ + 1,
                            !.attempts = IF api.at = "relogin" THEN @ + 1 ELSE @,
                            !.at = "loop"]
           ELSE [api EXCEPT !.logins = @ + 1, !.at = "out",
                            !.raised = Some(VirginMediaTVGuideError)]

\* one turn of `while not ret and attempts <= 2': the request and its outcome
Request(resp) ==
    /\ api.at = "loop"
    /\ falsy(api.ret) /\ api.attempts <= 2
    /\ Len(api.responses) < MaxRequests
    /\ api' =
           LET asked == [api EXCEPT !.responses = Append(@, resp)]
           IN  IF resp.status = 200 THEN [asked EXCEPT !.ret = resp.json]
               ELSE IF resp.status # 403
               THEN [asked EXCEPT !.at = "out", !.raised = Some(VirginMediaTVGuideError)]
               ELSE IF api.attempts >= 2
               THEN [asked EXCEPT !.at = "out", !.raised = Some(VirginMediaTVGuideForbidden)]
               ELSE [asked EXCEPT !.at = "relogin"]

\* the loop ends and the call returns ret
ReturnChannels ==
    /\ api.at = "loop"
    /\ ~(falsy(api.ret) /\ api.attempts <= 2)
    /\ api' = [api EXCEPT !.at = "out", !.returned = Some(api.ret)]

NoClient ==
    UNCHANGED <<_reader, _writer, _tivo, _data_callback, call, before, io, raised,
                open_sockets, scope, _lock_read, pc, _timeout, _command_timeout, unsent,
                inbox>>

NextGuide ==
    \/ NoClient /\ UNCHANGED player /\ \E session \in {None, Some("session")} : NewAPI(session)
    \/ NoClient /\ UNCHANGED player /\ GetChannels
    \/ NoClient /\ UNCHANGED player /\ \E ok \in BOOLEAN : Login(ok)
    \/ NoClient /\ UNCHANGED player /\ \E resp \in Responses : Request(resp)
    \/ NoClient /\ UNCHANGED player /\ ReturnChannels

SpecGuide == Init /\ [][NextGuide]_vars

(***************************************************************************)
(* The channel cache of the player: runs of _async_cache_channels, started *)
(* by the timers of Home Assistant, each a task that is suspended while    *)
(* the guide API answers and while the caches are written.  pc[p].op of a  *)
(* task that is out tells how its last run ended.                          *)
(***************************************************************************)
\* _async_cache_channels is called: it returns at once when the flag file
\* exists, else it creates the file and awaits the guide API
CacheChannels(p) ==
    /\ pc[p].at = "out"
    /\ IF player.channels_caching  \* is_flagged()
       THEN /\ pc' = [pc EXCEPT ![p] = [at |-> "out", op |-> "already_running"]]
            /\ UNCHANGED player
       ELSE /\ pc' = [pc EXCEPT ![p] = [at |-> "api", op |-> "_async_cache_channels"]]
            /\ player' = [player EXCEPT !.channels_caching = TRUE]  \* create()

\* `async with API(...)' and async_get_channels end: with the channels, or
\* with an error that is logged before the run returns
ChannelsFetched(p, ok) ==
    /\ pc[p].at = "api"
    /\ IF ok
       THEN /\ pc' = [pc EXCEPT ![p].at = "files"]
            /\ UNCHANGED player
       ELSE /\ pc' = [pc EXCEPT ![p] = [at |-> "out", op |-> "api_error"]]
            /\ UNCHANGED player

\* the rest of the run: the channels and the session are written to their
\* files, the state is pushed to Home Assistant, the channel mappings are
\* fetched on a V6, and the flag file is deleted; an error of any of these
\* steps leaves the run as it is
ChannelsCached(p, ok) ==
    /\ pc[p].at = "files"
    /\ IF ok
       THEN /\ pc' = [pc EXCEPT ![p] = [at |-> "out", op |-> "exited"]]
            /\ player' = [player EXCEPT !.channels_caching = FALSE]  \* delete()
       ELSE /\ pc' = [pc EXCEPT ![p] = [at |-> "out", op |-> "raised"]]
            /\ UNCHANGED player

PlayerOnly ==
    UNCHANGED <<_reader, _writer, _tivo, _data_callback, call, before, io, raised,
                open_sockets, scope, _lock_read, _timeout, _command_timeout, unsent,
                inbox, api>>

NextCache ==
    \/ PlayerOnly /\ \E p \in Tasks : CacheChannels(p)
    \/ PlayerOnly /\ \E p \in Tasks, ok \in BOOLEAN : ChannelsFetched(p, ok)
    \/ PlayerOnly /\ \E p \in Tasks, ok \in BOOLEAN : ChannelsCached(p, ok)

SpecCache == Init /\ [][NextCache]_vars

(***************************************************************************)
(* The player and its Client.  The timers and the services of Home         *)
(* Assistant call the player concurrently; each call is a task, suspended  *)
(* while it waits for _lock_client, while the connection opens, while the  *)
(* command and its reply-wait run, while the connection closes, and in the *)
(* sleep of async_turn_on.  A task has the operation it was called for     *)
(* (`op'), the part of it that is running (`stage'), its place in that     *)
(* part (`at') and the exception the body of `async with self._client' has *)
(* raised (`exc').                                                         *)
(***************************************************************************)
MaxCallers == 2     \* concurrent calls of the player

Away == [at |-> "out", op |-> "idle", stage |-> "idle", exc |-> None]

\* VirginMediaPlayer.__init__ with its Client, the idle timeout set or not
InitPlayer ==
    /\ _reader = None
    /\ _writer = None
    /\ open_sockets = 0
    /\ scope = "out"
    /\ _tivo = Device
    /\ _data_callback = <<>>
    /\ call = NoCall
    /\ before = Snapshot
    /\ io = <<>>
    /\ raised = None
    /\ _lock_read = None
    /\ pc = [p \in Tasks |-> Away]
    /\ _timeout = Some(DEFAULT_CONNECT_TIMEOUT)
    /\ _command_timeout = or_default(Some(DEFAULT_COMMAND_TIMEOUT), DEFAULT_COMMAND_TIMEOUT)
    /\ unsent = 0
    /\ inbox = NoReplies
    /\ player \in {[VirginMediaPlayer EXCEPT !.idle_timeout = t] : t \in BOOLEAN}
    /\ api = API

\* what the reply-wait of a call of the player reads
PlayerReads ==
    {ReadError(Exc("TimeoutError", <<>>)),
     ReadData(<<"C", "H", "_", "S", "T", "A", "T", "U", "S", " ", "0", "1", "0", "5", " ", "L", "O", "C", "A", "L", "\r", "\n">>),
     ReadData(<<"I", "N", "V", "A", "L", "I", "D", "_", "K", "E", "Y", "\r", "\n">>)}

\* `not self._client.device.channel_number': None, and 0 as well
no_channel(tivo) == tivo.channel_number = None \/ tivo.channel_number = Some(0)

\* _async_fetch_player_state once the connection is closed and the lock
\* released: the state and the current channel follow the Device
fetched_state(pl, tivo) ==
    IF no_channel(tivo)
    THEN [pl EXCEPT !._channel_current = None,
                    !._state = IF ~pl.idle_timeout THEN Some("off")
                               ELSE IF @ # Some("off") THEN Some("idle") ELSE @]
    ELSE [pl EXCEPT !._channel_current = tivo.channel_number,
                    !._state = IF @ # Some("paused") THEN Some("playing") ELSE @]

\* the call of the task returns, or raises exc: the task is out again
Ended(pl, task, result, exc) == [pl |-> pl, task |-> Away]

\* _async_fetch_player_state returns: to the loop of async_turn_on, which
\* sleeps, or to the caller of the task
poll_returned(pl, task, result) ==
    IF task.stage = "ready"
    THEN [pl |-> pl, task |-> [task EXCEPT !.at = "sleep"]]
    ELSE Ended(pl, task, result, None)

\* _async_fetch_player_state is entered: skipped while turning_off is set
begin_poll(pl, task) ==
    IF pl._flags.turning_off
    THEN poll_returned(pl, task, "skipped")
    ELSE [pl |-> pl, task |-> [task EXCEPT !.at = "lock"]]

\* async_turn_on once standby is sent, and after each sleep: it polls while
\* the Device has no channel, then the player is playing and turning_on is
\* cleared; async_select_source goes on to its channel change
turn_on_ready(pl, task, tivo) ==
    IF no_channel(tivo)
    THEN begin_poll(pl, [task EXCEPT !.stage = "ready"])
    ELSE LET on == [pl EXCEPT !._state = Some("playing"), !._flags.turning_on = FALSE]
         IN  IF task.op = "select_source"
             THEN [pl |-> on, task |-> [task EXCEPT !.stage = "setch", !.at = "lock"]]
             ELSE Ended(on, task, "exited", None)

\* the except clauses around the command of each part: what leaves the body
\* of `async with self._client'
body_raises(pl, stage, r) ==
    IF r = None THEN None
    ELSE CASE stage \in {"poll", "ready"} ->
                  IF isVirginMediaError(r[1]) THEN None ELSE r
           [] stage \in {"send_ircode", "standby", "standby1", "standby2"} ->
                  IF r[1].type # "VirginMediaCommandTimeout" /\ ~pl._flags.turning_on
                  THEN r ELSE None
           [] stage = "setch" ->
                  IF r[1].type = "VirginMediaInvalidChannel" THEN None ELSE r
           [] OTHER -> r

\* `async with self._lock_client' is left, normally or with the exception e:
\* what the part that ran does next
span_ended(pl, task, tivo, e) ==
    CASE task.stage \in {"poll", "ready"} ->
             IF e = None THEN poll_returned(fetched_state(pl, tivo), task, "updated")
             ELSE IF isVirginMediaError(e[1]) THEN poll_returned(pl, task, "unconnected")
             ELSE Ended(pl, task, "raised", e)
      [] task.stage = "send_ircode" ->
             IF e = None THEN Ended(pl, task, "exited", None) ELSE Ended(pl, task, "raised", e)
      [] task.stage = "media_pause" ->
             IF e = None THEN Ended([pl EXCEPT !._state = Some("paused")], task, "exited", None)
             ELSE Ended(pl, task, "raised", e)
      [] task.stage = "standby1" ->
             IF e = None THEN [pl |-> pl, task |-> [task EXCEPT !.stage = "standby2", !.at = "lock"]]
             ELSE Ended(pl, task, "raised", e)
      [] task.stage = "standby2" ->
             IF e = None
             THEN Ended([pl EXCEPT !._state = Some("off"), !._flags.turning_off = FALSE],
                        task, "exited", None)
             ELSE Ended(pl, task, "raised", e)
      [] task.stage = "standby" ->
             IF e = None THEN turn_on_ready(pl, task, tivo) ELSE Ended(pl, task, "raised", e)
      [] OTHER ->  \* setch
             IF e = None THEN begin_poll(pl, [task EXCEPT !.stage = "poll"])
             ELSE Ended(pl, task, "raised", e)

\* a timer or a service of Home Assistant calls the player
Called(p, op) ==
    /\ pc[p].at = "out"
    /\ LET task == [at |-> "lock", op |-> op, stage |-> op, exc |-> None]
           next ==
               CASE op = "poll" -> begin_poll(player, task)
                 [] op = "turn_off" ->
                        IF player._state \notin {Some("off"), Some("idle")}
                        THEN [pl |-> [player EXCEPT !._flags.turning_off = TRUE],
                              task |-> [task EXCEPT !.stage = "standby1"]]
                        ELSE Ended([player EXCEPT !._flags.turning_off = FALSE],
                                   task, "invalid_state", None)
                 [] op = "turn_on" ->
                        IF player._state \in {Some("idle"), Some("off")}
                        THEN [pl |-> [player EXCEPT !._flags.turning_on = TRUE],
                              task |-> [task EXCEPT !.stage = "standby"]]
                        ELSE Ended([player EXCEPT !._flags.turning_on = FALSE],
                                   task, "invalid_state", None)
                 [] op = "select_source" ->
                        IF player._state = Some("off")
                        THEN [pl |-> [player EXCEPT !._flags.turning_on = TRUE],
                              task |-> [task EXCEPT !.stage = "standby"]]
                        ELSE [pl |-> player, task |-> [task EXCEPT !.stage = "setch"]]
                 [] OTHER -> [pl |-> player, task |-> task]
       IN  /\ player' = next.pl
           /\ pc' = [pc EXCEPT ![p] = next.task]
    /\ UNCHANGED <<_reader, _writer, _tivo, open_sockets>>

\* a lock that is given to whoever asks
Acquired_unlocked(p) ==
    /\ pc[p].at = "lock"
    /\ player' = [player EXCEPT !._lock_client = Some(p)]
    /\ pc' = [pc EXCEPT ![p].at = "connect"]
    /\ UNCHANGED <<_reader, _writer, _tivo, open_sockets>>

\* `async with self._lock_client': the task gets the lock when it is free
Acquired(p) ==
    /\ pc[p].at = "lock"
    /\ player._lock_client = None
    /\ player' = [player EXCEPT !._lock_client = Some(p)]
    /\ pc' = [pc EXCEPT ![p].at = "connect"]
    /\ UNCHANGED <<_reader, _writer, _tivo, open_sockets>>

\* `async with self._client', Client.__aenter__: the connection opens, or
\* connect raises, the lock is released and the part ends with the error
Entered(p, co) ==
    /\ pc[p].at = "connect"
    /\ IF co = None
       THEN /\ _reader' = Some("reader")
            /\ _writer' = Some(StreamWriter)
            /\ open_sockets' = open_sockets + 1
            /\ pc' = [pc EXCEPT ![p].at = "command"]
            /\ UNCHANGED player
       ELSE /\ LET next == span_ended([player EXCEPT !._lock_client = None], pc[p], _tivo,
                                      Some(connect_except(co[1])))
               IN  /\ player' = next.pl
                   /\ pc' = [pc EXCEPT ![p] = next.task]
            /\ UNCHANGED <<_reader, _writer, open_sockets>>
    /\ UNCHANGED _tivo

\* the command of the part and its reply-wait: wait_for_data in a poll,
\* send_ircode, send_keyboard or set_channel in the others
Commanded(p, code, wr, rd) ==
    /\ pc[p].at = "command"
    /\ LET stage == pc[p].stage
           out ==
               CASE stage \in {"poll", "ready"} ->
                        wait_for_data(_reader, _tivo, _data_callback, rd, None)
                 [] stage = "media_pause" ->
                        send_keyboard(<<"p", "a", "u", "s", "e">>, TRUE, _writer, _reader, _tivo,
                                      _data_callback, wr, rd, None)
                 [] stage = "setch" ->
                        set_channel(105, _writer, _reader, _tivo, _data_callback, wr, rd, None)
                 [] OTHER ->
                        send_ircode(code, TRUE, _writer, _reader, _tivo, _data_callback,
                                    wr, rd, None)
       IN  /\ _tivo' = out.tivo
           /\ pc' = [pc EXCEPT ![p].at = "disconnect",
                               ![p].exc = body_raises(player, stage, out.raised)]
    /\ UNCHANGED <<_reader, _writer, open_sockets, player>>

\* Client.__aexit__: disconnect closes the socket and forgets the handles,
\* or wait_closed raises; the lock is released either way, and the part ends
\* with the error of disconnect, else with the error of the body
Disconnected(p, cl) ==
    /\ pc[p].at = "disconnect"
    /\ open_sockets' = open_sockets - 1
    /\ IF cl = None
       THEN _writer' = None /\ _reader' = None
       ELSE _writer' = Some([_writer[1] EXCEPT !.closing = TRUE]) /\ UNCHANGED _reader
    /\ LET next == span_ended([player EXCEPT !._lock_client = None], pc[p], _tivo,
                              IF cl = None THEN pc[p].exc ELSE cl)
       IN  /\ player' = next.pl
           /\ pc' = [pc EXCEPT ![p] = next.task]
    /\ UNCHANGED _tivo

\* asyncio.sleep(0.2) in the loop of async_turn_on is over
Woken(p) ==
    /\ pc[p].at = "sleep"
    /\ LET next == turn_on_ready(player, pc[p], _tivo)
       IN  /\ player' = next.pl
           /\ pc' = [pc EXCEPT ![p] = next.task]
    /\ UNCHANGED <<_reader, _writer, _tivo, open_sockets>>

ClientUsed ==
    UNCHANGED <<_data_callback, call, before, io, raised, scope, _lock_read,
                _timeout, _command_timeout, unsent, inbox, api>>

NextPlayer ==
    \/ ClientUsed /\ \E p \in 1..MaxCallers :
          \E op \in {"poll", "send_ircode", "media_pause", "select_source",
                     "turn_off", "turn_on"} : Called(p, op)
    \/ ClientUsed /\ \E p \in 1..MaxCallers : Acquired(p)
    \/ ClientUsed /\ \E p \in 1..MaxCallers :
          \E co \in {None, Some(Exc("TimeoutError", <<>>)),
                     Some(Exc("ConnectionRefusedError", <<>>))} : Entered(p, co)
    \/ ClientUsed /\ \E p \in 1..MaxCallers :
          \E code \in {IF pc[p].stage = "send_ircode" THEN <<"B", "o", "g", "u", "s">> ELSE <<"s", "t", "a", "n", "d", "b", "y">>} :
              \E rd \in PlayerReads : Commanded(p, code, None, rd)
    \/ ClientUsed /\ \E p \in 1..MaxCallers : \E cl \in {None} \cup {Some(e) : e \in CloseErrors} :
          Disconnected(p, cl)
    \/ ClientUsed /\ \E p \in 1..MaxCallers : Woken(p)

SpecPlayer == InitPlayer /\ [][NextPlayer]_vars

(***************************************************************************)
(* The properties.  A state right after a call holds the call (`call'),    *)
(* the Client as the call found it (`before'), what the call did on the    *)
(* socket (`io') and what it raised (`raised').                            *)
(***************************************************************************)
Max(S) == CHOOSE x \in S : \A y \in S : y <= x
Min(S) == CHOOSE x \in S : \A y \in S : x <= y

\* the call read, and the read timed out, returned no byte, returned `text' and a line end
DidRead == \E i \in 1..Len(io) : io[i].ev = "read"
ReadTimedOut == DidRead /\ call.rd.kind = "error" /\ call.rd.err.type = "TimeoutError"
ReadNothing == DidRead /\ call.rd.kind = "data" /\ call.rd.data = <<>>
ReadLine(text) == DidRead /\ call.rd.kind = "data" /\ call.rd.data = text \o <<"\r", "\n">>
Raised(type) == raised # None /\ raised[1].type = type
Connected == before.writer # None /\ before.reader # None

\* C1: whatever a call does to the Device, previous_channel_number is the
\* channel_number the call found when the call changed channel_number, and
\* neither field changes when the value the call sets equals channel_number.
C1_PreviousChannel ==
    ~Idle =>
        IF _tivo.channel_number # before.tivo.channel_number
        THEN _tivo.previous_channel_number = before.tivo.channel_number
        ELSE _tivo.previous_channel_number = before.tivo.previous_channel_number

\* a reply-wait moved the Device from one channel to another
C1_Witness ==
    /\ call.op = "wait_for_data"
    /\ before.tivo.channel_number = Some(105)
    /\ _tivo.channel_number = Some(101)
    /\ _tivo.previous_channel_number = Some(105)

\* the digits of a status line, read off the line position by position
FourDigitsAt(s, i) == i + 3 <= Len(s) /\ \A k \in i..(i + 3) : s[k] \in DigitSet
RunOfFourAt(s, i) ==
    /\ FourDigitsAt(s, i)
    /\ (i = 1 \/ s[i - 1] \notin DigitSet)
    /\ (i + 4 > Len(s) \/ s[i + 4] \notin DigitSet)
FirstFourDigits(s) ==
    LET at == {i \in 1..Len(s) : FourDigitsAt(s, i)}
    IN  IF at = {} THEN None ELSE Some(SubSeq(s, Min(at), Min(at) + 3))
FirstRunOfFour(s) ==
    LET at == {i \in 1..Len(s) : RunOfFourAt(s, i)}
    IN  IF at = {} THEN None ELSE Some(SubSeq(s, Min(at), Min(at) + 3))
DigitValue(c) == CHOOSE n \in 0..9 : DigitChars[n + 1] = c
DecimalValue(d) ==
    1000 * DigitValue(d[1]) + 100 * DigitValue(d[2]) + 10 * DigitValue(d[3]) + DigitValue(d[4])
StatusRead ==
    /\ call.op = "wait_for_data"
    /\ call.rd.kind = "data"
    /\ Len(call.rd.data) >= 9
    /\ SubSeq(call.rd.data, 1, 9) = <<"C", "H", "_", "S", "T", "A", "T", "U", "S">>

\* C2, as stated: a status line sets channel_number to the value of its first
\* run of exactly four digits, a longer run not counting, and leaves it alone
\* when there is no such run.
C2_AsStated ==
    StatusRead =>
        LET run == FirstRunOfFour(call.rd.data)
        IN  _tivo.channel_number =
                IF run = None THEN before.tivo.channel_number ELSE Some(DecimalValue(run[1]))

\* C2: a status line sets channel_number to the value of the first four
\* consecutive digits found anywhere in the line, be they a whole run or the
\* start of a longer one, and leaves it alone when no four digits are consecutive.
C2_FirstFourDigits ==
    StatusRead =>
        LET four == FirstFourDigits(call.rd.data)
        IN  _tivo.channel_number =
                IF four = None THEN before.tivo.channel_number ELSE Some(DecimalValue(four[1]))

\* a line whose only digits are a run of five set the channel to the first four of them
C2_Witness ==
    /\ StatusRead
    /\ call.rd.data = <<"C", "H", "_", "S", "T", "A", "T", "U", "S">> \o <<"1", "0", "0", "0", "1">>
    /\ before.tivo.channel_number = Some(11)
    /\ _tivo.channel_number = Some(1000)

\* C3: a read that exceeds the reply timeout leaves channel_number None, with
\* previous_channel_number taking the old channel when there was one, and
\* wait_for_data raises CommandTimeout.
C3_Timeout ==
    ReadTimedOut =>
        /\ _tivo.channel_number = None
        /\ _tivo.previous_channel_number =
               IF before.tivo.channel_number # None
               THEN before.tivo.channel_number
               ELSE before.tivo.previous_channel_number
        /\ call.op = "wait_for_data" => Raised("VirginMediaCommandTimeout")

\* a reply-wait timed out on a Device that had a channel
C3_Witness ==
    /\ call.op = "wait_for_data"
    /\ ReadTimedOut
    /\ before.tivo.channel_number = Some(105)
    /\ _tivo = [channel_number |-> None, previous_channel_number |-> Some(105)]
    /\ Raised("VirginMediaCommandTimeout")

\* C4: a read that returns no byte leaves channel_number None and
\* wait_for_data raises ConnectionReset.
C4_ZeroBytes ==
    ReadNothing =>
        /\ _tivo.channel_number = None
        /\ call.op = "wait_for_data" => Raised("VirginMediaConnectionReset")

\* the peer closed the connection of a Device that had a channel
C4_Witness ==
    /\ call.op = "wait_for_data"
    /\ ReadNothing
    /\ before.tivo.channel_number = Some(101)
    /\ _tivo.channel_number = None
    /\ Raised("VirginMediaConnectionReset")

Commands == {"send_ircode", "send_keyboard", "send_teleport", "set_channel"}
Verb ==
    CASE call.op = "send_ircode" -> <<"I", "R", "C", "O", "D", "E">>
      [] call.op = "send_keyboard" -> <<"K", "E", "Y", "B", "O", "A", "R", "D">>
      [] call.op = "send_teleport" -> <<"T", "E", "L", "E", "P", "O", "R", "T">>
      [] call.op = "set_channel" -> <<"S", "E", "T", "C", "H">>
      [] OTHER -> <<>>
Argument == IF call.op = "set_channel" THEN str_int(call.channel_number) ELSE call.code
Capital(c) ==
    IF \E i \in 1..26 : LowerLetters[i] = c
    THEN UpperLetters[CHOOSE i \in 1..26 : LowerLetters[i] = c]
    ELSE c
Capitals(s) == [i \in 1..Len(s) |-> Capital(s[i])]

\* C5: what a command writes is its verb, a space and its argument, in upper
\* case, then one carriage return, and a reply-wait starts only after the
\* write and its drain.
C5_WireFormat ==
    call.op \in Commands =>
        /\ \A i \in 1..Len(io) :
               io[i].ev = "write" => io[i].data = Verb \o <<" ">> \o Capitals(Argument) \o <<"\r">>
        /\ \A i \in 1..Len(io) :
               io[i].ev \in {"acquire", "read"} =>
                   \E j \in 2..(i - 1) : io[j - 1].ev = "write" /\ io[j].ev = "drain"

\* a keyboard code in mixed case went out in upper case and the reply was read
C5_Witness ==
    /\ call.op = "send_keyboard"
    /\ call.code = <<"B", "o", "g", "u", "s">>
    /\ Len(io) >= 4
    /\ io[1] = Event("write", <<"K", "E", "Y", "B", "O", "A", "R", "D", " ", "B", "O", "G", "U", "S", "\r">>)
    /\ io[2].ev = "drain"
    /\ io[4].ev = "read"

\* C6: send_ircode(c) and send_keyboard(c) that wait for the reply on a
\* connected Client raise InvalidKey carrying c when the reply is INVALID_KEY.
C6_InvalidKey ==
    /\ call.op \in {"send_ircode", "send_keyboard"}
    /\ call.wait_for_reply
    /\ Connected
    /\ ReadLine(<<"I", "N", "V", "A", "L", "I", "D", "_", "K", "E", "Y">>)
    => /\ Raised("VirginMediaInvalidKey")
       /\ raised[1].key_code = call.code

\* send_keyboard of a code in mixed case was answered INVALID_KEY
C6_Witness ==
    /\ call.op = "send_keyboard"
    /\ call.code = <<"B", "o", "g", "u", "s">>
    /\ ReadLine(<<"I", "N", "V", "A", "L", "I", "D", "_", "K", "E", "Y">>)
    /\ Raised("VirginMediaInvalidKey")
    /\ raised[1].key_code = <<"B", "o", "g", "u", "s">>

\* the reply line INVALID_CHANNEL n to set_channel(n)
InvalidChannelLine ==
    /\ call.rd.kind = "data"
    /\ call.rd.data = <<"I", "N", "V", "A", "L", "I", "D", "_", "C", "H", "A", "N", "N", "E", "L", " ">> \o str_int(call.channel_number)

\* C7, as stated: set_channel(n) on a connected Client raises InvalidChannel
\* carrying n when the reply line is INVALID_CHANNEL n.
C7_AsStated ==
    /\ call.op = "set_channel"
    /\ Connected
    /\ InvalidChannelLine
    => /\ Raised("VirginMediaInvalidChannel")
       /\ raised[1].channel_number = Some(call.channel_number)

\* C7: set_channel(n) on a connected Client raises InvalidChannel carrying n
\* when the reply line is CH_FAILED INVALID_CHANNEL; a reply line
\* INVALID_CHANNEL n is no failure: the Device stays as it was, nothing is
\* raised for the line, and the data callbacks run.
C7_InvalidChannel ==
    call.op = "set_channel" /\ Connected =>
        /\ ReadLine(<<"C", "H", "_", "F", "A", "I", "L", "E", "D", " ", "I", "N", "V", "A", "L", "I", "D", "_", "C", "H", "A", "N", "N", "E", "L">>) =>
               /\ Raised("VirginMediaInvalidChannel")
               /\ raised[1].channel_number = Some(call.channel_number)
        /\ InvalidChannelLine =>
               /\ _tivo = before.tivo
               /\ call.cbr = None => raised = None
               /\ ~Raised("VirginMediaInvalidChannel")
               /\ \E i \in 1..Len(io) : io[i].ev = "release"
               /\ Len(before.callbacks) > 0 /\ call.cbr = None =>
                      \E i \in 1..Len(io) : io[i].ev = "callback"

\* set_channel(999) answered INVALID_CHANNEL 999 returned normally
C7_Witness ==
    /\ call.op = "set_channel"
    /\ call.channel_number = 999
    /\ Connected
    /\ InvalidChannelLine
    /\ raised = None

\* the last token of a reply line, its tokens separated by single spaces
LineOf(data) ==
    LET keep == {i \in 1..Len(data) : data[i] \notin {"\r", "\n"}}
    IN  IF keep = {} THEN <<>> ELSE SubSeq(data, Min(keep), Max(keep))
LastToken(line) ==
    LET sp == {i \in 1..Len(line) : line[i] = " "}
    IN  IF sp = {} THEN line ELSE SubSeq(line, Max(sp) + 1, Len(line))
FailedWith(reason) ==
    /\ call.rd.kind = "data"
    /\ Len(call.rd.data) >= 9
    /\ SubSeq(call.rd.data, 1, 9) = <<"C", "H", "_", "F", "A", "I", "L", "E", "D">>
    /\ LastToken(LineOf(call.rd.data)) = reason

\* what _send raised to the command method of the call
CommandText ==
    CASE call.op = "send_ircode" -> <<"i", "r", "c", "o", "d", "e", " ">> \o call.code
      [] call.op = "send_keyboard" -> <<"k", "e", "y", "b", "o", "a", "r", "d", " ">> \o call.code
      [] call.op = "send_teleport" -> <<"t", "e", "l", "e", "p", "o", "r", "t", " ">> \o call.code
      [] call.op = "set_channel" -> <<"s", "e", "t", "c", "h", " ">> \o str_int(call.channel_number)
      [] OTHER -> <<>>
RaisedBySend ==
    _send(CommandText, call.wait_for_reply, before.writer, before.reader, before.tivo,
          before.callbacks, call.wr, call.rd, call.cbr).raised

C9_InvalidCommand ==
    /\ call.op = "send_teleport"
    /\ Connected
    /\ ReadLine(<<"I", "N", "V", "A", "L", "I", "D", "_", "C", "O", "M", "M", "A", "N", "D">>)
    => /\ Raised("VirginMediaInvalidCommand")
       /\ raised[1].command = call.code

\* send_teleport of a code in mixed case was answered INVALID_COMMAND
C9_Witness ==
    /\ call.op = "send_teleport"
    /\ call.code = <<"B", "o", "g", "u", "s">>
    /\ ReadLine(<<"I", "N", "V", "A", "L", "I", "D", "_", "C", "O", "M", "M", "A", "N", "D">>)
    /\ Raised("VirginMediaInvalidCommand")
    /\ raised[1].command = <<"B", "o", "g", "u", "s">>

\* the error _send raised is one the command method turns into InvalidKey,
\* NotLive or InvalidChannel
Remapped ==
    IF call.op = "send_ircode"
    THEN ReadLine(<<"I", "N", "V", "A", "L", "I", "D", "_", "K", "E", "Y">>)
    ELSE FailedWith(<<"N", "O", "_", "L", "I", "V", "E">>) \/ FailedWith(<<"I", "N", "V", "A", "L", "I", "D", "_", "C", "H", "A", "N", "N", "E", "L">>)

\* C10: send_ircode that waits for the reply, and set_channel, on a connected
\* Client: an error of the write or of the reply-wait that the method does not
\* remap reaches the caller as _send raised it -- CommandTimeout for a
\* timeout, ConnectionReset for a closed connection, VirginMediaError
\* otherwise -- and after any such error the call does not return normally.
C10_ErrorsPropagate ==
    /\ \/ call.op = "send_ircode" /\ call.wait_for_reply
       \/ call.op = "set_channel"
    /\ Connected
    => /\ RaisedBySend # None => raised # None
       /\ RaisedBySend # None /\ ~Remapped =>
              /\ raised = RaisedBySend
              /\ raised[1].type \in {"VirginMediaCommandTimeout", "VirginMediaConnectionReset",
                                      "VirginMediaError"}
       /\ call.wr # None => raised # None
       /\ call.wr # None /\ call.wr[1].type = "TimeoutError" => Raised("VirginMediaCommandTimeout")
       /\ call.wr # None /\ call.wr[1].type # "TimeoutError" => Raised("VirginMediaError")
       /\ ReadTimedOut => Raised("VirginMediaCommandTimeout")
       /\ ReadNothing => Raised("VirginMediaConnectionReset")
       /\ call.rd.kind = "error" /\ ~ReadTimedOut => Raised("VirginMediaError")
       /\ call.cbr # None => Raised("VirginMediaError")

\* send_ircode whose reply-wait found the connection closed raised ConnectionReset
C10_Witness ==
    /\ call.op = "send_ircode"
    /\ call.wait_for_reply
    /\ Connected
    /\ ReadNothing
    /\ raised = Some(VirginMediaConnectionReset)

\* C11, as stated: send_keyboard that waits for the reply, and send_teleport,
\* on a connected Client: an error of the write or of the reply-wait that the
\* method does not remap reaches the caller as _send raised it, and after any
\* such error the call does not return normally.
C11_AsStated ==
    /\ \/ call.op = "send_keyboard" /\ call.wait_for_reply
       \/ call.op = "send_teleport"
    /\ Connected
    /\ RaisedBySend # None
    => /\ raised # None
       /\ raised[1].type \in {"VirginMediaInvalidKey", "VirginMediaInvalidCommand"}
              \/ raised = RaisedBySend

\* C12: send_ircode and send_keyboard called with wait_for_reply false write
\* the command and read nothing, whatever the device sends back: the read
\* guard is not acquired, the Device is as it was, no data callback runs, and
\* nothing is raised unless the write itself fails.
C12_NoWait ==
    call.op \in {"send_ircode", "send_keyboard"} /\ ~call.wait_for_reply =>
        /\ \A i \in 1..Len(io) : io[i].ev \in {"write", "drain"}
        /\ before.writer # None => Len(io) = 2 /\ io[1].ev = "write" /\ io[2].ev = "drain"
        /\ _tivo = before.tivo
        /\ call.wr = None => raised = None

\* the device answered INVALID_KEY to a send_ircode that did not wait, on a
\* Client with a channel and a registered callback
C12_Witness ==
    /\ call.op = "send_ircode"
    /\ ~call.wait_for_reply
    /\ Connected
    /\ call.rd = ReadData(<<"I", "N", "V", "A", "L", "I", "D", "_", "K", "E", "Y", "\r", "\n">>)
    /\ before.tivo.channel_number = Some(105)
    /\ Len(before.callbacks) > 0
    /\ Len(io) = 2
    /\ raised = None
    /\ _tivo = before.tivo

\* the data callbacks a call invoked, in order, and the error its reply-wait ended in
Invoked == SelectSeq(io, LAMBDA e : e.ev = "callback")
WaitRaised == IF call.op = "wait_for_data" THEN raised ELSE RaisedBySend

\* C13: after a reply-wait that ends without error every registration in
\* _data_callback is invoked once, in registration order, with the Client's
\* Device; after a reply-wait that ends in an error of the read or of the
\* reply (a timeout, a zero-byte read, a failed read, an undecodable reply,
\* CH_FAILED, INVALID_KEY, INVALID_COMMAND) no data callback is invoked.
C13_Callbacks ==
    DidRead =>
        /\ WaitRaised = None =>
               /\ Len(Invoked) = Len(before.callbacks)
               /\ \A i \in 1..Len(Invoked) :
                      /\ Invoked[i].data = <<before.callbacks[i]>>
                      /\ Invoked[i].tivo = Some(_tivo)
        /\ WaitRaised # None /\ call.cbr = None => Invoked = <<>>

\* two callbacks ran in the order of their registration after a status line
\* that left the channel as it was
C13_Witness ==
    /\ call.op = "wait_for_data"
    /\ ReadLine(<<"C", "H", "_", "S", "T", "A", "T", "U", "S", " ", "0", "1", "0", "5", " ", "L", "O", "C", "A", "L">>)
    /\ before.tivo.channel_number = Some(105)
    /\ before.callbacks = <<"g", "f">>
    /\ raised = None
    /\ Len(Invoked) = 2
    /\ Invoked[1].data = <<"g">>
    /\ Invoked[2].data = <<"f">>

\* C14: a data callback that runs after a status line carrying channel n is
\* passed a Device whose channel_number is n and whose
\* previous_channel_number is already what the update rule makes it: the
\* Device exactly as the call leaves it.
C14_CallbackSeesUpdate ==
    /\ DidRead
    /\ call.rd.kind = "data"
    /\ Len(call.rd.data) >= 14
    /\ SubSeq(call.rd.data, 1, 10) = <<"C", "H", "_", "S", "T", "A", "T", "U", "S", " ">>
    /\ FourDigitsAt(call.rd.data, 11)
    => \A i \in 1..Len(Invoked) :
           /\ Invoked[i].tivo # None
           /\ Invoked[i].tivo[1].channel_number = Some(DecimalValue(SubSeq(call.rd.data, 11, 14)))
           /\ Invoked[i].tivo[1].previous_channel_number =
                  IF before.tivo.channel_number = Invoked[i].tivo[1].channel_number
                  THEN before.tivo.previous_channel_number
                  ELSE before.tivo.channel_number
           /\ Invoked[i].tivo[1] = _tivo

\* a callback was passed the Device on channel 101 with previous channel 105
C14_Witness ==
    /\ ReadLine(<<"C", "H", "_", "S", "T", "A", "T", "U", "S", " ", "0", "1", "0", "1", " ", "R", "E", "M", "O", "T", "E">>)
    /\ before.tivo = [channel_number |-> Some(105), previous_channel_number |-> None]
    /\ Len(Invoked) > 0
    /\ Invoked[1].tivo = Some([channel_number |-> Some(101), previous_channel_number |-> Some(105)])

\* C17, as stated: disconnect on a Client that has a connection closes the
\* socket and clears the reader and the writer; on a Client that has none it
\* changes nothing and raises nothing.
C17_AsStated ==
    call.op = "disconnect" =>
        IF before.writer # None
        THEN /\ _writer = None
             /\ _reader = None
             /\ \E i \in 1..Len(io) : io[i].ev = "close"
             /\ open_sockets = before.open_sockets - (IF before.writer[1].closing THEN 0 ELSE 1)
        ELSE /\ _writer = None
             /\ _reader = before.reader
             /\ _tivo = before.tivo
             /\ open_sockets = before.open_sockets
             /\ io = <<>>
             /\ raised = None

\* C18, as stated: after __aexit__ the Client has no reader, no writer and no
\* open socket, whatever happened in the block; after an __aenter__ whose
\* connect failed it has no reader and no writer either.
C18_AsStated ==
    /\ call.op = "disconnect" => _writer = None /\ _reader = None /\ open_sockets = 0
    /\ scope = "failed" => _writer = None /\ _reader = None

\* C19, as stated: at most one socket of the Client is open at any time, and
\* none is once a disconnect has returned.
C19_AsStated ==
    /\ open_sockets <= 1
    /\ call.op = "disconnect" /\ raised = None => open_sockets = 0

\* C20: a connect that times out raises CommandTimeout, a connect that fails
\* with another OS or network error raises VirginMediaError, and after
\* either the reader, the writer, the open sockets and the Device are what
\* they were before the call.
C20_ConnectFails ==
    call.op = "connect" /\ call.wr # None =>
        /\ IF call.wr[1].type = "TimeoutError"
           THEN Raised("VirginMediaCommandTimeout")
           ELSE Raised("VirginMediaError")
        /\ _reader = before.reader
        /\ _writer = before.writer
        /\ open_sockets = before.open_sockets
        /\ _tivo = before.tivo

\* a connect refused on a Client that has a connection and a channel
C20_Witness ==
    /\ call.op = "connect"
    /\ call.wr = Some(Exc("ConnectionRefusedError", <<>>))
    /\ raised = Some(VirginMediaError(Some(<<"C", "o", "n", "n", "e", "c", "t", "i", "o", "n", " ", "r", "e", "f", "u", "s", "e", "d">>)))
    /\ before.writer = Some(StreamWriter)
    /\ _writer = Some(StreamWriter)
    /\ _tivo.channel_number = Some(105)

\* the tasks between the start of their read and the end of their callbacks
Reading == {p \in Tasks : pc[p].at = "read"}

\* C15: of the tasks that call wait_for_data on one Client concurrently,
\* directly or through a command, at most one is between the start of its
\* read and the end of its parsing and callbacks.
C15_OneReader == Cardinality(Reading) <= 1

\* one task reads while the two others wait for the lock
C15_Witness ==
    /\ Cardinality(Reading) = 1
    /\ Cardinality({p \in Tasks : pc[p].at = "lock"}) >= 2
    /\ {pc[p].op : p \in Tasks} = {"wait_for_data", "send_ircode"}

\* C16: the lock is held only by a task that is in its reply-wait: every way
\* out of wait_for_data has released it, so with no task reading the lock is
\* free for the tasks that wait.
C16_LockReleased ==
    /\ _lock_read # None => pc[_lock_read[1]].at = "read"
    /\ Reading = {} => _lock_read = None
    /\ call.op # "idle" /\ Reading = {} => ~locked(_lock_read)

\* a reply-wait ended in the exception of a data callback while another task
\* waited for the lock, and the lock is free
C16_Witness ==
    /\ call.op = "wait_for_data"
    /\ call.cbr # None
    /\ raised # None
    /\ Reading = {}
    /\ \E p \in Tasks : pc[p].at = "lock"
    /\ _lock_read = None

\* the cause the specification gives a failure of each type that has no message of its own
CauseByType(type) ==
    CASE type = "ConnectionRefusedError" -> <<"C", "o", "n", "n", "e", "c", "t", "i", "o", "n", " ", "r", "e", "f", "u", "s", "e", "d">>
      [] type = "ConnectionResetError" -> <<"C", "o", "n", "n", "e", "c", "t", "i", "o", "n", " ", "r", "e", "s", "e", "t">>
      [] type = "BrokenPipeError" -> <<"B", "r", "o", "k", "e", "n", " ", "p", "i", "p", "e">>
      [] type = "ConnectionAbortedError" -> <<"C", "o", "n", "n", "e", "c", "t", "i", "o", "n", " ", "a", "b", "o", "r", "t", "e", "d">>
      [] OTHER -> <<"O", "S", " ", "I", "/", "O", " ", "e", "r", "r", "o", "r">>

\* C21, as stated: the VirginMediaError of a connect that failed with an OS or
\* network error carries the message of the failure when it has one, else
\* the cause of its type -- Connection refused, Connection reset, Broken
\* pipe, Connection aborted, and OS I/O error for every other type -- and
\* never an empty or a missing cause.
C21_AsStated ==
    call.op = "connect" /\ call.wr # None /\ call.wr[1].type # "TimeoutError" =>
        /\ Raised("VirginMediaError")
        /\ raised[1].message =
               IF call.wr[1].message # <<>> THEN call.wr[1].message
               ELSE CauseByType(call.wr[1].type)
        /\ raised[1].message \notin {<<>>, <<"N", "o", "n", "e">>}
        /\ format_error_message(call.wr[1]) # None

\* C22, as stated: whatever wait_for_data raises is CommandTimeout,
\* ConnectionReset or VirginMediaError itself, whatever bytes are read and
\* whatever the data callbacks do: never InvalidKey, InvalidCommand,
\* InvalidChannel or NotLive, and never an error outside VirginMediaError.
C22_AsStated ==
    call.op = "wait_for_data" /\ raised # None =>
        /\ isVirginMediaError(raised[1])
        /\ raised[1].type \in {"VirginMediaCommandTimeout", "VirginMediaConnectionReset",
                                "VirginMediaError"}

\* C23: remove_data_callback of a callback that is not in _data_callback
\* raises nothing and leaves _data_callback, its order included, as it was.
C23_RemoveUnregistered ==
    /\ call.op = "remove_data_callback"
    /\ \A i \in 1..Len(before.callbacks) : before.callbacks[i] # call.code[1]
    => /\ raised = None
       /\ _data_callback = before.callbacks

\* g was removed from a Client whose callbacks are f, twice registered
C23_Witness ==
    /\ call.op = "remove_data_callback"
    /\ call.code = <<"g">>
    /\ before.callbacks = <<"f", "f">>
    /\ _data_callback = <<"f", "f">>
    /\ raised = None

\* the text of a read without the whitespace around it, and its prefix
Stripped(data) ==
    LET keep == {i \in 1..Len(data) : data[i] \notin {" ", "\t", "\r", "\n"}}
    IN  IF keep = {} THEN <<>> ELSE SubSeq(data, Min(keep), Max(keep))
Prefixed(text, prefix) ==
    Len(text) >= Len(prefix) /\ \A i \in 1..Len(prefix) : text[i] = prefix[i]
Decodable(data) == \A i \in 1..Len(data) : data[i] # BadByte

\* the call read a reply that is no status line, no failure line and neither
\* of the two literals
OtherReply ==
    /\ DidRead
    /\ call.rd.kind = "data"
    /\ call.rd.data # <<>>
    /\ Decodable(call.rd.data)
    /\ ~Prefixed(Stripped(call.rd.data), <<"C", "H", "_", "S", "T", "A", "T", "U", "S">>)
    /\ ~Prefixed(Stripped(call.rd.data), <<"C", "H", "_", "F", "A", "I", "L", "E", "D">>)
    /\ Stripped(call.rd.data) # <<"I", "N", "V", "A", "L", "I", "D", "_", "K", "E", "Y">>
    /\ Stripped(call.rd.data) # <<"I", "N", "V", "A", "L", "I", "D", "_", "C", "O", "M", "M", "A", "N", "D">>

\* C24: a non-empty reply that, stripped, neither starts with CH_STATUS or
\* CH_FAILED nor equals INVALID_KEY or INVALID_COMMAND leaves channel_number
\* and previous_channel_number as they were, and the reply-wait raises
\* nothing for it: with data callbacks that return, wait_for_data returns.
C24_Ignored ==
    OtherReply =>
        /\ _tivo = before.tivo
        /\ call.cbr = None => WaitRaised = None
        /\ call.cbr = None /\ call.op = "wait_for_data" => raised = None

\* wait_for_data read LIVETV_READY on a Device that had a channel and a previous channel
C24_Witness ==
    /\ call.op = "wait_for_data"
    /\ ReadLine(<<"L", "I", "V", "E", "T", "V", "_", "R", "E", "A", "D", "Y">>)
    /\ OtherReply
    /\ before.tivo = [channel_number |-> Some(101), previous_channel_number |-> Some(105)]
    /\ _tivo = before.tivo
    /\ raised = None

\* the call read a status line that carries channel n
StatusCarrying(n) ==
    /\ DidRead
    /\ call.rd.kind = "data"
    /\ Decodable(call.rd.data)
    /\ Prefixed(Stripped(call.rd.data), <<"C", "H", "_", "S", "T", "A", "T", "U", "S">>)
    /\ FirstFourDigits(Stripped(call.rd.data)) # None
    /\ DecimalValue(FirstFourDigits(Stripped(call.rd.data))[1]) = n

\* C25: a call changes channel_number or previous_channel_number only in a
\* reply-wait: channel_number becomes n only on a status line carrying n and
\* becomes None only on a reply timeout or a read of no byte; connect,
\* whether it succeeds or fails, disconnect, add_data_callback,
\* remove_data_callback and a command that does not wait for the reply leave
\* both fields as they were.
C25_DeviceChanges ==
    ~Idle =>
        /\ _tivo # before.tivo => DidRead
        /\ _tivo.channel_number # before.tivo.channel_number =>
               IF _tivo.channel_number = None
               THEN ReadTimedOut \/ ReadNothing
               ELSE StatusCarrying(_tivo.channel_number[1])
        /\ call.op \in {"connect", "disconnect", "add_data_callback", "remove_data_callback"} =>
               _tivo = before.tivo
        /\ call.op \in {"send_ircode", "send_keyboard"} /\ ~call.wait_for_reply =>
               _tivo = before.tivo

\* a disconnect closed the connection of a Device on channel 101 with
\* previous channel 105, and both are still there
C25_Witness ==
    /\ call.op = "disconnect"
    /\ before.writer # None
    /\ _writer = None
    /\ before.tivo = [channel_number |-> Some(101), previous_channel_number |-> Some(105)]
    /\ _tivo = before.tivo

\* C26: wait_for_data leaves the reader and the writer of the Client, and the
\* sockets it has open, as it found them, however the reply-wait ends: after
\* a reply timeout, a read of no byte or a failure reply the Client still
\* holds its socket, with channel_number None after the first two.
C26_HandlesKept ==
    call.op = "wait_for_data" =>
        /\ _reader = before.reader
        /\ _writer = before.writer
        /\ open_sockets = before.open_sockets

\* a reply timeout left a connected Client with its socket and no channel
C26_Witness ==
    /\ call.op = "wait_for_data"
    /\ ReadTimedOut
    /\ Raised("VirginMediaCommandTimeout")
    /\ before.tivo.channel_number = Some(105)
    /\ _tivo.channel_number = None
    /\ _writer = Some(StreamWriter)
    /\ _reader # None
    /\ open_sockets = 1

\* how many times a call did one thing
Count(ev) == Cardinality({i \in 1..Len(io) : io[i].ev = ev})
TwoStatusLines ==
    <<"C", "H", "_", "S", "T", "A", "T", "U", "S", " ", "0", "1", "0", "5", " ", "L", "O", "C", "A", "L", "\r", "\n", "C", "H", "_", "S", "T", "A", "T", "U", "S", " ", "0", "1", "0", "1", " ", "L", "O", "C", "A", "L", "\r", "\n">>

\* C27: nothing is tried twice.  A command writes its line at most once
\* (once on a Client with a writer) and waits for at most one reply; a
\* reply-wait reads once and updates the Device at most once, from the first
\* line when the bytes hold two status lines; connect opens one connection.
C27_NoRetry ==
    ~Idle =>
        /\ Count("write") <= 1
        /\ Count("drain") <= 1
        /\ Count("acquire") <= 1
        /\ Count("read") <= Count("acquire")
        /\ Count("open") <= 1
        /\ call.op \in Commands /\ before.writer # None => Count("write") = 1
        /\ call.op \in Commands /\ before.writer = None => io = <<>>
        /\ Count("acquire") = 1 /\ before.reader # None => Count("read") = 1
        /\ call.op = "wait_for_data" => Count("acquire") = 1
        /\ call.op = "connect" => io = <<Event("open", <<>>)>>
        /\ \/ _tivo = before.tivo
           \/ /\ _tivo.channel_number # before.tivo.channel_number
              /\ _tivo.previous_channel_number = before.tivo.channel_number
        /\ DidRead /\ call.rd = ReadData(TwoStatusLines) =>
               /\ _tivo.channel_number = Some(105)
               /\ _tivo.previous_channel_number # Some(105)

\* set_channel wrote once and read once two status lines, and the Device took the first
C27_Witness ==
    /\ call.op = "set_channel"
    /\ call.rd = ReadData(TwoStatusLines)
    /\ Count("write") = 1
    /\ Count("read") = 1
    /\ before.tivo.channel_number = Some(101)
    /\ _tivo = [channel_number |-> Some(105), previous_channel_number |-> Some(101)]

\* C28, as stated: a call that has come to one of its suspension points --
\* the open, the drain after the write, the read -- comes out of it, by
\* return or by exception, whatever the timeouts the Client was built with
\* and whatever the peer does or never does.
C28_AsStated == Suspended ~> ~Suspended

\* the last token of a line whose tokens any whitespace separates
LastWhitespaceToken(line) ==
    LET ws == {i \in 1..Len(line) : line[i] \in {" ", "\t", "\r", "\n"}}
    IN  IF ws = {} THEN line ELSE SubSeq(line, Max(ws) + 1, Len(line))

\* wait_for_data read a failure line, one of the two literals
FailureRead ==
    /\ call.op = "wait_for_data"
    /\ DidRead
    /\ call.rd.kind = "data"
    /\ Decodable(call.rd.data)
    /\ Prefixed(Stripped(call.rd.data), <<"C", "H", "_", "F", "A", "I", "L", "E", "D">>)
LiteralRead ==
    /\ call.op = "wait_for_data"
    /\ DidRead
    /\ call.rd.kind = "data"
    /\ Stripped(call.rd.data) \in {<<"I", "N", "V", "A", "L", "I", "D", "_", "K", "E", "Y">>, <<"I", "N", "V", "A", "L", "I", "D", "_", "C", "O", "M", "M", "A", "N", "D">>}

\* C29, as stated: wait_for_data raises VirginMediaError with the last
\* whitespace-delimited token of a reply that starts with CH_FAILED, and
\* with the literal for a reply INVALID_KEY or INVALID_COMMAND; the Device
\* is as it was.
C29_AsStated ==
    /\ FailureRead =>
           /\ raised = Some(VirginMediaError(Some(LastWhitespaceToken(Stripped(call.rd.data)))))
           /\ _tivo = before.tivo
    /\ LiteralRead =>
           /\ raised = Some(VirginMediaError(Some(Stripped(call.rd.data))))
           /\ _tivo = before.tivo

\* C29: wait_for_data raises VirginMediaError with what follows the last
\* space character of a stripped reply that starts with CH_FAILED -- the
\* whole reply when it has no space, a tab or a line break delimiting
\* nothing -- and with the literal for a reply INVALID_KEY or
\* INVALID_COMMAND; the Device is as it was.
C29_FailureReplies ==
    /\ FailureRead =>
           /\ raised = Some(VirginMediaError(Some(LastToken(Stripped(call.rd.data)))))
           /\ _tivo = before.tivo
    /\ LiteralRead =>
           /\ raised = Some(VirginMediaError(Some(Stripped(call.rd.data))))
           /\ _tivo = before.tivo

\* a failure line with a tab for separator was raised whole
C29_Witness ==
    /\ FailureRead
    /\ ReadLine(<<"C", "H", "_", "F", "A", "I", "L", "E", "D", "\t", "N", "O", "_", "L", "I", "V", "E">>)
    /\ before.tivo.channel_number = Some(105)
    /\ raised = Some(VirginMediaError(Some(<<"C", "H", "_", "F", "A", "I", "L", "E", "D", "\t", "N", "O", "_", "L", "I", "V", "E">>)))
    /\ _tivo = before.tivo

\* wait_for_data whose read failed otherwise than by the reply timeout: the
\* read raised, or the Client has no reader to read from
ReadFailed ==
    /\ call.op = "wait_for_data"
    /\ \/ before.reader = None
       \/ call.rd.kind = "error" /\ call.rd.err.type # "TimeoutError"

\* C30: a wait_for_data whose read fails otherwise than by the reply
\* timeout or by a read of no byte, a wait_for_data on a Client without a
\* connection included, raises VirginMediaError itself, leaves
\* channel_number and previous_channel_number as they were, invokes no data
\* callback, and has left the read lock when it raises.
C30_ReadFailure ==
    ReadFailed =>
        /\ Raised("VirginMediaError")
        /\ _tivo = before.tivo
        /\ Invoked = <<>>
        /\ Count("acquire") = 1
        /\ Count("release") = 1
        /\ io[Len(io)].ev = "release"

\* wait_for_data on a Client that was disconnected, with a channel and a callback
C30_Witness ==
    /\ ReadFailed
    /\ before.reader = None
    /\ before.tivo.channel_number = Some(105)
    /\ Len(before.callbacks) > 0
    /\ raised = Some(VirginMediaError(Some(<<"'", "N", "o", "n", "e", "T", "y", "p", "e", "'", " ", "o", "b", "j", "e", "c", "t", " ", "h", "a", "s", " ", "n", "o", " ", "a", "t", "t", "r", "i", "b", "u", "t", "e", " ", "'", "r", "e", "a", "d", "'">>)))
    /\ _tivo = before.tivo

\* the Device shows the same value as its channel and as its previous channel
SameChannels == _tivo.channel_number = _tivo.previous_channel_number

\* C34: channel_number and previous_channel_number of the Device are equal
\* only while both are None and the channel has never changed: the step that
\* changes channel_number leaves the two fields different, and once they
\* differ they differ in every later state.
C34_FieldsDiffer ==
    /\ [](SameChannels => _tivo = Device)
    /\ [][(_tivo'.channel_number # _tivo.channel_number =>
               _tivo'.channel_number # _tivo'.previous_channel_number)
           /\ (~SameChannels => ~SameChannels')]_vars

\* the reply-wait timed out after channel 105: the channel is None again and
\* the previous channel is 105
C34_Witness ==
    /\ call.op = "wait_for_data"
    /\ before.tivo.channel_number = Some(105)
    /\ before.tivo.previous_channel_number = None
    /\ ReadTimedOut
    /\ _tivo = [channel_number |-> None, previous_channel_number |-> Some(105)]

\* one of the four commands, called on a Client whose _writer is None
CommandUnconnected == call.op \in Commands /\ before.writer = None

\* C35: a command called on a Client without a connection writes nothing,
\* waits for no reply (no lock is taken, nothing is read), invokes no data
\* callback, leaves the Device and the handles as they were and raises
\* nothing, whatever the code or channel and whatever wait_for_reply is.
C35_Unconnected ==
    CommandUnconnected =>
        /\ io = <<>>
        /\ raised = None
        /\ _tivo = before.tivo
        /\ _reader = before.reader
        /\ _writer = None
        /\ _data_callback = before.callbacks

\* set_channel after a disconnect, a channel known and a callback registered
C35_Witness ==
    /\ CommandUnconnected
    /\ call.op = "set_channel"
    /\ call.channel_number = 999
    /\ before.tivo.channel_number = Some(105)
    /\ Len(before.callbacks) > 0
    /\ raised = None

\* how many registrations of f a list of callbacks holds, and how many times
\* the call invoked f
Registrations(f, callbacks) == Cardinality({i \in 1..Len(callbacks) : callbacks[i] = f})
Invocations(f) == Cardinality({i \in 1..Len(Invoked) : Invoked[i].data = <<f>>})

\* the list without its element at position i
Without(list, i) == SubSeq(list, 1, i - 1) \o SubSeq(list, i + 1, Len(list))

\* a reply-wait that raised nothing: wait_for_data, or a command that waited
SuccessfulWait == DidRead /\ WaitRaised = None

\* C36: each add_data_callback adds one registration at the end, whether or
\* not the callback is registered already; a remove_data_callback that finds
\* the callback takes its earliest registration away and keeps the others in
\* their order; no other call changes the registrations; and a successful
\* reply-wait invokes the registrations in their order, so f once for every
\* add of f that no remove has taken away.
C36_Registrations ==
    /\ call.op = "add_data_callback" =>
            _data_callback = before.callbacks \o call.code
    /\ call.op = "remove_data_callback" /\ Registrations(call.code[1], before.callbacks) > 0 =>
            \E i \in 1..Len(before.callbacks) :
                /\ before.callbacks[i] = call.code[1]
                /\ \A j \in 1..(i - 1) : before.callbacks[j] # call.code[1]
                /\ _data_callback = Without(before.callbacks, i)
    /\ call.op = "remove_data_callback" /\ Registrations(call.code[1], before.callbacks) = 0 =>
            _data_callback = before.callbacks
    /\ call.op \notin {"add_data_callback", "remove_data_callback"} =>
            _data_callback = before.callbacks
    /\ SuccessfulWait =>
            /\ \A f \in CallbackIds : Invocations(f) = Registrations(f, before.callbacks)
            /\ Len(Invoked) = Len(before.callbacks)
            /\ \A i \in 1..Len(Invoked) : Invoked[i].data = <<before.callbacks[i]>>

\* f was added twice around g and removed once: g and the later f remain
C36_Witness ==
    /\ call.op = "remove_data_callback"
    /\ call.code = <<"f">>
    /\ before.callbacks = <<"f", "g", "f">>
    /\ _data_callback = <<"g", "f">>

\* C31, as stated: whenever send_ircode(c) or send_keyboard(c) raises
\* InvalidKey, the key_code it carries is c and the INVALID_KEY line the call
\* read is the peer's answer to that very command, whatever commands were
\* sent before on the connection, the ones sent with wait_for_reply false
\* included.
C31_AsStated ==
    call.op \in {"send_ircode", "send_keyboard"} /\ Raised("VirginMediaInvalidKey") =>
        /\ raised[1].key_code = call.code
        /\ Len(inbox.taken) = 1
        /\ inbox.taken[1].to = inbox.commands

\* the channel-list requests the call has made
Requests == Len(api.responses)

\* C33, as stated: async_get_channels makes at most two channel-list requests
\* and logs in again at most once, after a 403 on the first request; a 403
\* on the second request raises Forbidden, any other failure of a request
\* raises VirginMediaTVGuideError at once, and a response that succeeded is
\* the last request of the call, whatever its content.
C33_AsStated ==
    /\ Requests <= 2
    /\ api.logins <= 2
    /\ api.logins = 2 => Requests >= 1 /\ api.responses[1].status = 403
    /\ \A i \in 1..Requests :
           /\ api.responses[i].status = 200 => i = Requests
           /\ api.responses[i].status = 403 /\ i = 2 =>
                  api.raised = Some(VirginMediaTVGuideForbidden)
           /\ api.responses[i].status \notin {200, 403} =>
                  i = Requests /\ api.raised = Some(VirginMediaTVGuideError)
    /\ api.returned # None => api.responses[Requests].status = 200

\* a run of _async_cache_channels is between its start and its end
CacheRunning == \E p \in Tasks : pc[p].at # "out"

\* C38, as stated: the channels-caching flag file exists only while a run of
\* _async_cache_channels is in progress; once the runs have ended, the guide
\* API having succeeded or failed, the file is absent, and no run is skipped
\* as already running while none is.
C38_AsStated == player.channels_caching => CacheRunning

\* the tasks between the connect and the end of the disconnect of a part
InSpan == {p \in 1..MaxCallers : pc[p].at \in {"connect", "command", "disconnect"}}

\* C32: in the player every connect-to-disconnect span on the Client lies
\* inside one holding of _lock_client: at most one task is in a span and it
\* holds the lock, the Client has an open socket or a live writer only while
\* the lock is held, a task that waits for the lock does not hold it, and
\* whoever holds the lock is in a span (every way out of a span, the errors
\* of connect, of the command and of disconnect included, releases it).
C32_OneSpan ==
    /\ Cardinality(InSpan) <= 1
    /\ \A p \in InSpan : player._lock_client = Some(p)
    /\ \A p \in Tasks : player._lock_client = Some(p) => p \in InSpan
    /\ \A p \in 1..MaxCallers : pc[p].at = "lock" => player._lock_client # Some(p)
    /\ open_sockets <= 1
    /\ open_sockets = 1 =>
           \E p \in InSpan : pc[p].at \in {"command", "disconnect"}
    /\ (IF _writer = None THEN FALSE ELSE ~_writer[1].closing) => open_sockets = 1

\* a poll has the connection open for its reply-wait while async_turn_off
\* waits for the lock
C32_Witness ==
    /\ \E p \in InSpan : pc[p].at = "command" /\ pc[p].op = "poll"
    /\ \E p \in 1..MaxCallers : pc[p].at = "lock" /\ pc[p].op = "turn_off"
    /\ open_sockets = 1
    /\ player._lock_client # None

\* the tasks inside async_turn_off, and inside async_turn_on (called as a
\* service or by async_select_source)
TurningOff == {p \in 1..MaxCallers : pc[p].at # "out" /\ pc[p].stage \in {"standby1", "standby2"}}
TurningOn == {p \in 1..MaxCallers : pc[p].at # "out" /\ pc[p].stage \in {"standby", "ready"}}

\* C37, as stated: the flag turning_off is set only while a call of
\* async_turn_off is executing and turning_on only while a call of
\* async_turn_on is: once those calls have ended, by a return or by an error
\* of the connect or of the standby command, the flag is false again.
C37_AsStated ==
    /\ player._flags.turning_off => TurningOff # {}
    /\ player._flags.turning_on => TurningOn # {}

\* task p is in a poll (as a timer's call, at the end of async_select_source
\* or in the loop of async_turn_on)
Polling(p) == pc[p].stage \in {"poll", "ready"}

\* C39, as stated: when a poll that connected and made its reply-wait ends,
\* the state of the entity is OFF or IDLE exactly when the Device has no
\* channel and PLAYING or PAUSED exactly when it has one, OFF is not replaced
\* by IDLE nor PAUSED by PLAYING; a poll that is skipped, and one that fails
\* to connect, change neither the state nor the current channel.
C39_AsStated ==
    [][\A p \in 1..MaxCallers :
          /\ Polling(p) /\ pc[p].at = "disconnect" /\ pc'[p].at # "disconnect" =>
                 /\ player'._state \in {Some("off"), Some("idle")} <=>
                        _tivo'.channel_number = None
                 /\ player'._state \in {Some("playing"), Some("paused")} <=>
                        _tivo'.channel_number # None
                 /\ player._state = Some("off") => player'._state # Some("idle")
                 /\ player._state = Some("paused") => player'._state # Some("playing")
          /\ Polling(p) /\ pc[p].at = "connect" /\ pc'[p].at \notin {"connect", "command"} =>
                 /\ player'._state = player._state
                 /\ player'._channel_current = player._channel_current
          /\ Called(p, "poll") /\ player._flags.turning_off =>
                 /\ player'._state = player._state
                 /\ player'._channel_current = player._channel_current]_vars

====
